---------------------------- MODULE Spec2Model ----------------------------
(***************************************************************************)
(* A model of js-virtualtar: the USTAR header layout (utils), the          *)
(* synchronous Generator and Parser state machines, and the two streaming  *)
(* facades VirtualTarGenerator and VirtualTarParser.                       *)
(*                                                                         *)
(* Byte arrays (Uint8Array) are sequences of numbers 0..255; JavaScript    *)
(* strings are sequences of character codes.  A JavaScript offset o is     *)
(* the index o + 1 of the sequence.                                        *)
(***************************************************************************)
EXTENDS Integers, Sequences, FiniteSets, TLC

(***************************************************************************)
(* constants.ts                                                            *)
(***************************************************************************)
BLOCK_SIZE == 512

STANDARD_PATH_SIZE == 255

\* 'ustar'
USTAR_NAME == <<117, 115, 116, 97, 114>>

\* '00'
USTAR_VERSION == <<48, 48>>

HEADER_OFFSET ==
  [ FILE_NAME |-> 0, FILE_MODE |-> 100, OWNER_UID |-> 108, OWNER_GID |-> 116,
    FILE_SIZE |-> 124, FILE_MTIME |-> 136, CHECKSUM |-> 148, TYPE_FLAG |-> 156,
    LINK_NAME |-> 157, USTAR_NAME |-> 257, USTAR_VERSION |-> 263,
    OWNER_USERNAME |-> 265, OWNER_GROUPNAME |-> 297, DEVICE_MAJOR |-> 329,
    DEVICE_MINOR |-> 337, FILE_NAME_PREFIX |-> 345 ]

HEADER_SIZE ==
  [ FILE_NAME |-> 100, FILE_MODE |-> 8, OWNER_UID |-> 8, OWNER_GID |-> 8,
    FILE_SIZE |-> 12, FILE_MTIME |-> 12, CHECKSUM |-> 8, TYPE_FLAG |-> 1,
    LINK_NAME |-> 100, USTAR_NAME |-> 6, USTAR_VERSION |-> 2,
    OWNER_USERNAME |-> 32, OWNER_GROUPNAME |-> 32, DEVICE_MAJOR |-> 8,
    DEVICE_MINOR |-> 8, FILE_NAME_PREFIX |-> 155 ]

\* EntryType: '0', '5', 'x'
EntryType == [ FILE |-> <<48>>, DIRECTORY |-> <<53>>, EXTENDED |-> <<120>> ]

\* The limit generateHeader compares stat.size with: the literal 0o7777777.
MAX_STAT_SIZE == 2097151

(***************************************************************************)
(* JavaScript string and number primitives used by utils                   *)
(***************************************************************************)
Min(a, b) == IF a <= b THEN a ELSE b

Max(a, b) == IF a >= b THEN a ELSE b

NUL == 0

\* new Uint8Array(n)
Zeros(n) == [i \in 1..n |-> 0]

\* String.prototype.slice(from, to) with 0 <= from, to
Slice(s, from, to) == SubSeq(s, from + 1, Min(to, Len(s)))

\* String.prototype.padEnd(n, c)
PadEnd(s, n, c) == IF Len(s) >= n THEN s ELSE s \o [i \in 1..(n - Len(s)) |-> c]

\* String.prototype.padStart(n, c)
PadStart(s, n, c) == IF Len(s) >= n THEN s ELSE [i \in 1..(n - Len(s)) |-> c] \o s

\* Number.prototype.toString(radix) for a non-negative integer
RECURSIVE NumToString(_, _)
NumToString(n, radix) ==
  IF n < radix THEN <<48 + n>>
  ELSE Append(NumToString(n \div radix, radix), 48 + (n % radix))

\* The value of parseInt when no digit can be read
NaN == 0 - 1

\* parseInt(s, radix) on a string without sign or leading blanks: the
\* longest prefix of digits below the radix; NaN when that prefix is empty.
RECURSIVE ParseDigits(_, _, _, _)
ParseDigits(s, radix, i, acc) ==
  IF i > Len(s) \/ s[i] < 48 \/ s[i] >= 48 + radix THEN acc
  ELSE ParseDigits(s, radix, i + 1, acc * radix + (s[i] - 48))

ParseInt(s, radix) ==
  IF Len(s) = 0 \/ s[1] < 48 \/ s[1] >= 48 + radix THEN NaN
  ELSE ParseDigits(s, radix, 1, 0)

\* ceil(n / BLOCK_SIZE)
CeilBlocks(n) == (n + BLOCK_SIZE - 1) \div BLOCK_SIZE

(***************************************************************************)
(* utils: writing header fields                                            *)
(***************************************************************************)
\* pad(value, length, padValue, end): value is passed as the string
\* value.toString(8) already ('' for a missing number).
pad(value, length, padValue, end) ==
  PadStart(value, length - Len(end), padValue) \o end

\* The octal string of an optional number: (x ?? '').toString(8)
OctalOrEmpty(stat, key) ==
  IF key \in DOMAIN stat THEN NumToString(stat[key], 8) ELSE <<>>

writeBytesToArray(array, bytes, offset, length) ==
  LET start == Max(0, Min(offset, Len(array)))
      end == Min(Len(array), start + Max(0, length))
      maxLength == end - start
      n == Min(Len(bytes), maxLength)
  IN  [i \in 1..Len(array) |->
         IF i > start /\ i <= start + n THEN bytes[i - start] % 256
         ELSE array[i]]

\* array.reduce((sum, byte, index) => ...) without an initial value: the sum
\* starts from array[0] and the callback runs from index 1.  The sum is
\* computed by halving the index range (addition is associative).
calculateChecksum(array) ==
  LET Term(i) ==
        IF (i - 1) >= HEADER_OFFSET.CHECKSUM
           /\ (i - 1) < HEADER_OFFSET.CHECKSUM + HEADER_SIZE.CHECKSUM
        THEN 32
        ELSE array[i]
      RECURSIVE Sum(_, _)
      Sum(lo, hi) ==
        IF lo > hi THEN 0
        ELSE IF lo = hi THEN Term(lo)
        ELSE LET mid == (lo + hi) \div 2
             IN  Sum(lo, mid) + Sum(mid + 1, hi)
  IN  array[1] + Sum(2, Len(array))

writeFilePath(header, filePath) ==
  LET filePathSuffix ==
        PadEnd(Slice(filePath, 0, HEADER_SIZE.FILE_NAME),
               HEADER_SIZE.FILE_NAME, NUL)
      filePathPrefix ==
        PadEnd(Slice(filePath, HEADER_SIZE.FILE_NAME,
                     HEADER_SIZE.FILE_NAME + HEADER_SIZE.FILE_NAME_PREFIX),
               HEADER_SIZE.FILE_NAME_PREFIX, NUL)
  IN  IF Len(filePath) < HEADER_SIZE.FILE_NAME
      THEN writeBytesToArray(header, filePathSuffix,
                             HEADER_OFFSET.FILE_NAME, HEADER_SIZE.FILE_NAME)
      ELSE writeBytesToArray(
             writeBytesToArray(header, filePathPrefix,
                               HEADER_OFFSET.FILE_NAME, HEADER_SIZE.FILE_NAME),
             filePathSuffix,
             HEADER_OFFSET.FILE_NAME_PREFIX, HEADER_SIZE.FILE_NAME_PREFIX)

writeFileMode(header, stat) ==
  writeBytesToArray(header,
    pad(OctalOrEmpty(stat, "mode"), HEADER_SIZE.FILE_MODE, 48, <<NUL>>),
    HEADER_OFFSET.FILE_MODE, HEADER_SIZE.FILE_MODE)

writeOwnerUid(header, stat) ==
  writeBytesToArray(header,
    pad(OctalOrEmpty(stat, "uid"), HEADER_SIZE.OWNER_UID, 48, <<NUL>>),
    HEADER_OFFSET.OWNER_UID, HEADER_SIZE.OWNER_UID)

writeOwnerGid(header, stat) ==
  writeBytesToArray(header,
    pad(OctalOrEmpty(stat, "gid"), HEADER_SIZE.OWNER_GID, 48, <<NUL>>),
    HEADER_OFFSET.OWNER_GID, HEADER_SIZE.OWNER_GID)

writeFileSize(header, stat) ==
  writeBytesToArray(header,
    pad(OctalOrEmpty(stat, "size"), HEADER_SIZE.FILE_SIZE, 48, <<NUL>>),
    HEADER_OFFSET.FILE_SIZE, HEADER_SIZE.FILE_SIZE)

\* mtime is a time in seconds here: dateToTarTime(date) = floor(ms / 1000)
writeFileMtime(header, stat) ==
  writeBytesToArray(header,
    pad(OctalOrEmpty(stat, "mtime"), HEADER_SIZE.FILE_MTIME, 48, <<NUL>>),
    HEADER_OFFSET.FILE_MTIME, HEADER_SIZE.FILE_MTIME)

writeFileType(header, type) ==
  LET entryType == CASE type = "file" -> EntryType.FILE
                     [] type = "directory" -> EntryType.DIRECTORY
                     [] type = "extended" -> EntryType.EXTENDED
  IN  writeBytesToArray(header,
        pad(entryType, HEADER_SIZE.TYPE_FLAG, 48, <<NUL>>),
        HEADER_OFFSET.TYPE_FLAG, HEADER_SIZE.TYPE_FLAG)

writeOwnerUserName(header, stat) ==
  LET uname == IF "uname" \in DOMAIN stat THEN stat.uname ELSE <<>>
  IN  writeBytesToArray(header,
        PadEnd(uname, HEADER_SIZE.OWNER_USERNAME, NUL),
        HEADER_OFFSET.OWNER_USERNAME, HEADER_SIZE.OWNER_USERNAME)

writeOwnerGroupName(header, stat) ==
  LET gname == IF "gname" \in DOMAIN stat THEN stat.gname ELSE <<>>
  IN  writeBytesToArray(header,
        PadEnd(gname, HEADER_SIZE.OWNER_GROUPNAME, NUL),
        HEADER_OFFSET.OWNER_GROUPNAME, HEADER_SIZE.OWNER_GROUPNAME)

writeUstarMagic(header) ==
  writeBytesToArray(
    writeBytesToArray(header, USTAR_NAME,
                      HEADER_OFFSET.USTAR_NAME, HEADER_SIZE.USTAR_NAME),
    USTAR_VERSION, HEADER_OFFSET.USTAR_VERSION, HEADER_SIZE.USTAR_VERSION)

writeChecksum(header, checksum) ==
  writeBytesToArray(header,
    pad(NumToString(checksum, 8), HEADER_SIZE.CHECKSUM, 48, <<NUL>>),
    HEADER_OFFSET.CHECKSUM, HEADER_SIZE.CHECKSUM)

(***************************************************************************)
(* utils: reading header fields                                            *)
(***************************************************************************)
\* extractBytes(array, offset, length, stoppingCharacter) with an offset,
\* a length and a stopping character given
extractBytes(array, offset, length, stoppingCharacter) ==
  LET start == offset
      end == start + length
      stops == {i \in start..(Min(end, Len(array)) - 1) :
                  array[i + 1] = stoppingCharacter}
      stop == IF stops = {} THEN end
              ELSE CHOOSE i \in stops : \A j \in stops : i <= j
  IN  SubSeq(array, start + 1, Min(stop, Len(array)))

\* extractBytes(array, 0, length): no stopping character
extractBytesTo(array, length) ==
  SubSeq(array, 1, Min(Max(length, 0), Len(array)))

extractString(array, offset, length) == extractBytes(array, offset, length, NUL)

extractOctal(array, offset, length) ==
  LET value == extractString(array, offset, length)
  IN  IF Len(value) > 0 THEN ParseInt(value, 8) ELSE 0

\* extractDecimal(array, offset, undefined, stoppingCharacter)
extractDecimal(array, offset, stoppingCharacter) ==
  LET value == extractBytes(array, offset, Len(array) - offset,
                            stoppingCharacter)
  IN  IF Len(value) > 0 THEN ParseInt(value, 10) ELSE 0

\* String.prototype.indexOf(c), from 0; -1 when c does not occur
IndexOf(str, c) ==
  IF \E i \in 1..Len(str) : str[i] = c
  THEN (CHOOSE i \in 1..Len(str) :
          str[i] = c /\ \A j \in 1..(i - 1) : str[j] # c) - 1
  ELSE 0 - 1

\* 'path'
FILE_PATH == <<112, 97, 116, 104>>

\* The line '<size> <key>=<value>\n' of an extended header, with the
\* size encodeExtendedHeader computes for it
ExtendedEntrySize(key, value) ==
  LET size == Len(key) + Len(value) + 3
  IN  size + Len(NumToString(size, 10))

ExtendedEntry(key, value) ==
  NumToString(ExtendedEntrySize(key, value), 10)
    \o <<32>> \o key \o <<61>> \o value \o <<10>>

RECURSIVE TotalByteSize(_)
TotalByteSize(data) ==
  IF data = <<>> THEN 0
  ELSE ExtendedEntrySize(Head(data)[1], Head(data)[2])
         + TotalByteSize(Tail(data))

\* The second loop of encodeExtendedHeader: encodeInto writes as much of
\* an entry as the rest of the output takes
RECURSIVE EncodeEntries(_, _, _)
EncodeEntries(data, output, offset) ==
  IF data = <<>> THEN [err |-> "none", output |-> output]
  ELSE LET entry == ExtendedEntry(Head(data)[1], Head(data)[2])
           written == Min(Len(entry), Len(output) - offset)
       IN  IF written = 0 THEN [err |-> "Error", output |-> output]
           ELSE EncodeEntries(Tail(data),
                              writeBytesToArray(output, entry, offset,
                                                written),
                              offset + written)

\* encodeExtendedHeader(data): data is the sequence of the <<key, value>>
\* pairs of the object, in the order of Object.entries
encodeExtendedHeader(data) ==
  EncodeEntries(data, Zeros(TotalByteSize(data)), 0)

\* The loop of decodeExtendedHeader; the pairs are collected in the order
\* in which they are assigned to the result
RECURSIVE DecodeEntries(_, _, _, _)
DecodeEntries(array, offset, remainingBytes, data) ==
  IF remainingBytes <= 0 THEN [err |-> "none", data |-> data]
  ELSE LET size == extractDecimal(array, offset, 32)
           fullLine == IF size <= 0 THEN <<>>
                       ELSE SubSeq(array, offset + 1,
                                   Min(offset + size, Len(array)))
           sizeSeparatorIndex == IndexOf(fullLine, 32)
           line == SubSeq(fullLine, sizeSeparatorIndex + 2, Len(fullLine))
           entrySeparatorIndex == IndexOf(line, 61)
           key == SubSeq(line, 1, entrySeparatorIndex)
           value == SubSeq(line, entrySeparatorIndex + 2, Len(line) - 1)
       IN  IF sizeSeparatorIndex = 0 - 1 \/ entrySeparatorIndex = 0 - 1
           THEN [err |-> "Error", data |-> data]
           ELSE DecodeEntries(array, offset + size, remainingBytes - size,
                              Append(data, <<key, value>>))

decodeExtendedHeader(array) == DecodeEntries(array, 0, Len(array), <<>>)

\* data.path of a decoded extended header: the value assigned last
MetadataPath(data) ==
  LET at == {i \in 1..Len(data) : data[i][1] = FILE_PATH}
  IN  IF at = {} THEN [defined |-> FALSE, value |-> <<>>]
      ELSE [defined |-> TRUE,
            value |-> data[CHOOSE i \in at : \A j \in at : j <= i][2]]

\* isNullBlock that takes every block for a null block
isNullBlock_Always(array) == TRUE

isNullBlock(array) ==
  \A i \in 1..BLOCK_SIZE : i > Len(array) \/ array[i] = 0

decodeFilePath(array) ==
  LET fileNamePrefix == extractString(array, HEADER_OFFSET.FILE_NAME_PREFIX,
                                      HEADER_SIZE.FILE_NAME_PREFIX)
      fileNameSuffix == extractString(array, HEADER_OFFSET.FILE_NAME,
                                      HEADER_SIZE.FILE_NAME)
  IN  IF fileNamePrefix # <<>> THEN fileNamePrefix \o fileNameSuffix
      ELSE fileNameSuffix

decodeFileMode(array) ==
  extractOctal(array, HEADER_OFFSET.FILE_MODE, HEADER_SIZE.FILE_MODE)

decodeOwnerUid(array) ==
  extractOctal(array, HEADER_OFFSET.OWNER_UID, HEADER_SIZE.OWNER_UID)

decodeOwnerGid(array) ==
  extractOctal(array, HEADER_OFFSET.OWNER_GID, HEADER_SIZE.OWNER_GID)

decodeFileSize(array) ==
  extractOctal(array, HEADER_OFFSET.FILE_SIZE, HEADER_SIZE.FILE_SIZE)

decodeFileMtime(array) ==
  extractOctal(array, HEADER_OFFSET.FILE_MTIME, HEADER_SIZE.FILE_MTIME)

decodeOwnerUserName(array) ==
  extractString(array, HEADER_OFFSET.OWNER_USERNAME, HEADER_SIZE.OWNER_USERNAME)

decodeOwnerGroupName(array) ==
  extractString(array, HEADER_OFFSET.OWNER_GROUPNAME,
                HEADER_SIZE.OWNER_GROUPNAME)

\* "invalid" stands for the InvalidHeader error decodeFileType throws
decodeFileType(array) ==
  LET type == extractString(array, HEADER_OFFSET.TYPE_FLAG,
                            HEADER_SIZE.TYPE_FLAG)
  IN  CASE type = EntryType.FILE -> "file"
        [] type = EntryType.DIRECTORY -> "directory"
        [] type = EntryType.EXTENDED -> "extended"
        [] OTHER -> "invalid"

decodeUstarMagic(array) ==
  extractString(array, HEADER_OFFSET.USTAR_NAME, HEADER_SIZE.USTAR_NAME)

decodeUstarVersion(array) ==
  extractString(array, HEADER_OFFSET.USTAR_VERSION, HEADER_SIZE.USTAR_VERSION)

decodeChecksum(array) ==
  extractOctal(array, HEADER_OFFSET.CHECKSUM, HEADER_SIZE.CHECKSUM)

(***************************************************************************)
(* Generator: state is [state, remainingBytes].  Every operation returns   *)
(* [err, gen, block]: the error thrown ("none" when it returns), the       *)
(* generator's fields after the call, and the block returned.              *)
(***************************************************************************)
GeneratorNew == [state |-> "HEADER", remainingBytes |-> 0]

\* 47 is '/'
EndsWithSlash(filePath) == Len(filePath) > 0 /\ filePath[Len(filePath)] = 47

Generator_generateHeader(filePath, type, stat) ==
  IF Len(filePath) > 255
  THEN [err |-> "InvalidFileName", block |-> <<>>]
  ELSE IF "size" \in DOMAIN stat /\ stat.size > MAX_STAT_SIZE
  THEN [err |-> "InvalidStat", block |-> <<>>]
  ELSE IF "uname" \in DOMAIN stat
          /\ Len(stat.uname) > HEADER_SIZE.OWNER_USERNAME
  THEN [err |-> "InvalidStat", block |-> <<>>]
  ELSE IF "gname" \in DOMAIN stat
          /\ Len(stat.gname) > HEADER_SIZE.OWNER_GROUPNAME
  THEN [err |-> "InvalidStat", block |-> <<>>]
  ELSE
    LET path == IF type = "directory" /\ ~EndsWithSlash(filePath)
                THEN filePath \o <<47>> ELSE filePath
        h0 == Zeros(BLOCK_SIZE)
        h1 == writeUstarMagic(h0)
        h2 == writeFileType(h1, type)
        h3 == writeFilePath(h2, path)
        h4 == writeFileMode(h3, stat)
        h5 == writeOwnerUid(h4, stat)
        h6 == writeOwnerGid(h5, stat)
        h7 == writeOwnerUserName(h6, stat)
        h8 == writeOwnerGroupName(h7, stat)
        h9 == writeFileSize(h8, stat)
        h10 == writeFileMtime(h9, stat)
    IN  [err |-> "none", block |-> writeChecksum(h10, calculateChecksum(h10))]

\* generateFile that is also accepted while data blocks are expected
Generator_generateFile_InData(gen, filePath, stat) ==
  IF gen.state \in {"HEADER", "DATA"}
  THEN IF "size" \notin DOMAIN stat
       THEN [err |-> "InvalidStat", gen |-> gen, block |-> <<>>]
       ELSE LET h == Generator_generateHeader(filePath, "file", stat)
            IN  IF h.err # "none"
                THEN [err |-> h.err, gen |-> gen, block |-> <<>>]
                ELSE [err |-> "none",
                      gen |-> IF stat.size # 0
                              THEN [state |-> "DATA",
                                    remainingBytes |-> stat.size]
                              ELSE gen,
                      block |-> h.block]
  ELSE [err |-> "InvalidState", gen |-> gen, block |-> <<>>]

Generator_generateFile(gen, filePath, stat) ==
  IF gen.state = "HEADER"
  THEN IF "size" \notin DOMAIN stat
       THEN [err |-> "InvalidStat", gen |-> gen, block |-> <<>>]
       ELSE LET h == Generator_generateHeader(filePath, "file", stat)
            IN  IF h.err # "none"
                THEN [err |-> h.err, gen |-> gen, block |-> <<>>]
                ELSE [err |-> "none",
                      gen |-> IF stat.size # 0
                              THEN [state |-> "DATA",
                                    remainingBytes |-> stat.size]
                              ELSE gen,
                      block |-> h.block]
  ELSE [err |-> "InvalidState", gen |-> gen, block |-> <<>>]

\* generateDirectory that keeps the size of the caller's stat and expects
\* that many bytes of data
Generator_generateDirectory_KeepsSize(gen, filePath, stat) ==
  IF gen.state = "HEADER"
  THEN LET h == Generator_generateHeader(filePath, "directory", stat)
       IN  [err |-> h.err,
            gen |-> IF h.err = "none" /\ "size" \in DOMAIN stat
                       /\ stat.size # 0
                    THEN [state |-> "DATA", remainingBytes |-> stat.size]
                    ELSE gen,
            block |-> h.block]
  ELSE [err |-> "InvalidState", gen |-> gen, block |-> <<>>]

Generator_generateDirectory(gen, filePath, stat) ==
  IF gen.state = "HEADER"
  THEN LET directoryStat ==
             [k \in (DOMAIN stat) \cup {"size"} |->
                IF k = "size" THEN 0 ELSE stat[k]]
           h == Generator_generateHeader(filePath, "directory", directoryStat)
       IN  [err |-> h.err, gen |-> gen, block |-> h.block]
  ELSE [err |-> "InvalidState", gen |-> gen, block |-> <<>>]

\* generateExtended that is also accepted between the two null blocks
Generator_generateExtended_InNull(gen, size) ==
  IF gen.state \in {"HEADER", "NULL"}
  THEN LET h == Generator_generateHeader(
                  <<46, 47, 80, 97, 120, 72, 101, 97, 100, 101, 114>>,
                  "extended", [size |-> size])
       IN  [err |-> h.err,
            gen |-> [state |-> "DATA", remainingBytes |-> size],
            block |-> h.block]
  ELSE [err |-> "InvalidState", gen |-> gen, block |-> <<>>]

\* The fields are assigned before generateHeader is called: they stay
\* assigned when generateHeader throws.
Generator_generateExtended(gen, size) ==
  IF gen.state = "HEADER"
  THEN LET h == Generator_generateHeader(
                  <<46, 47, 80, 97, 120, 72, 101, 97, 100, 101, 114>>,
                  "extended", [size |-> size])
       IN  [err |-> h.err,
            gen |-> [state |-> "DATA", remainingBytes |-> size],
            block |-> h.block]
  ELSE [err |-> "InvalidState", gen |-> gen, block |-> <<>>]

\* generateData without the return to HEADER after a full last block
Generator_generateData_StaysInData(gen, data) ==
  IF gen.state = "DATA"
  THEN IF Len(data) > BLOCK_SIZE
       THEN [err |-> "BlockSize", gen |-> gen, block |-> <<>>]
       ELSE IF gen.remainingBytes >= BLOCK_SIZE
       THEN [err |-> "none",
             gen |-> [gen EXCEPT !.remainingBytes = @ - BLOCK_SIZE],
             block |-> data]
       ELSE IF Len(data) # gen.remainingBytes
       THEN [err |-> "BlockSize", gen |-> gen, block |-> <<>>]
       ELSE [err |-> "none",
             gen |-> [state |-> "HEADER", remainingBytes |-> 0],
             block |-> writeBytesToArray(Zeros(BLOCK_SIZE), data, 0,
                                         Len(data))]
  ELSE [err |-> "InvalidState", gen |-> gen, block |-> <<>>]

Generator_generateData(gen, data) ==
  IF gen.state = "DATA"
  THEN IF Len(data) > BLOCK_SIZE
       THEN [err |-> "BlockSize", gen |-> gen, block |-> <<>>]
       ELSE IF gen.remainingBytes >= BLOCK_SIZE
       THEN LET r == gen.remainingBytes - BLOCK_SIZE
            IN  [err |-> "none",
                 gen |-> [state |-> IF r = 0 THEN "HEADER" ELSE gen.state,
                          remainingBytes |-> r],
                 block |-> data]
       ELSE IF Len(data) # gen.remainingBytes
       THEN [err |-> "BlockSize", gen |-> gen, block |-> <<>>]
       ELSE [err |-> "none",
             gen |-> [state |-> "HEADER", remainingBytes |-> 0],
             block |-> writeBytesToArray(Zeros(BLOCK_SIZE), data, 0,
                                         Len(data))]
  ELSE [err |-> "InvalidState", gen |-> gen, block |-> <<>>]

\* generateEnd that goes on returning null blocks once the archive has ended
Generator_generateEnd_AfterEnd(gen) ==
  CASE gen.state = "HEADER" ->
         [err |-> "none", gen |-> [gen EXCEPT !.state = "NULL"],
          block |-> Zeros(BLOCK_SIZE)]
    [] gen.state \in {"NULL", "ENDED"} ->
         [err |-> "none", gen |-> [gen EXCEPT !.state = "ENDED"],
          block |-> Zeros(BLOCK_SIZE)]
    [] OTHER -> [err |-> "EndOfArchive", gen |-> gen, block |-> <<>>]

\* generateEnd that is also accepted while data blocks are expected
Generator_generateEnd_InData(gen) ==
  CASE gen.state \in {"HEADER", "DATA"} ->
         [err |-> "none", gen |-> [gen EXCEPT !.state = "NULL"],
          block |-> Zeros(BLOCK_SIZE)]
    [] gen.state = "NULL" ->
         [err |-> "none", gen |-> [gen EXCEPT !.state = "ENDED"],
          block |-> Zeros(BLOCK_SIZE)]
    [] OTHER -> [err |-> "EndOfArchive", gen |-> gen, block |-> <<>>]

Generator_generateEnd(gen) ==
  CASE gen.state = "HEADER" ->
         [err |-> "none", gen |-> [gen EXCEPT !.state = "NULL"],
          block |-> Zeros(BLOCK_SIZE)]
    [] gen.state = "NULL" ->
         [err |-> "none", gen |-> [gen EXCEPT !.state = "ENDED"],
          block |-> Zeros(BLOCK_SIZE)]
    [] OTHER -> [err |-> "EndOfArchive", gen |-> gen, block |-> <<>>]

(***************************************************************************)
(* Parser: state is [state, remainingBytes].  write returns                *)
(* [err, parser, token]; the token has type "none" when write returns      *)
(* undefined or throws.                                                    *)
(***************************************************************************)
ParserNew == [state |-> "HEADER", remainingBytes |-> 0]

NoToken == [type |-> "none"]

\* parseHeader without the comparisons of the magic and the version
Parser_parseHeader_ChecksumOnly(header) ==
  LET headerChecksum == decodeChecksum(header)
      calculatedChecksum == calculateChecksum(header)
  IN  IF headerChecksum # calculatedChecksum
      THEN [err |-> "InvalidHeader", token |-> NoToken]
      ELSE IF decodeFileType(header) = "invalid"
      THEN [err |-> "InvalidHeader", token |-> NoToken]
      ELSE [err |-> "none",
            token |-> [type |-> "header",
                       filePath |-> decodeFilePath(header),
                       fileType |-> decodeFileType(header),
                       fileMode |-> decodeFileMode(header),
                       fileMtime |-> decodeFileMtime(header),
                       fileSize |-> decodeFileSize(header),
                       ownerGid |-> decodeOwnerGid(header),
                       ownerUid |-> decodeOwnerUid(header),
                       ownerUserName |-> decodeOwnerUserName(header),
                       ownerGroupName |-> decodeOwnerGroupName(header)]]

Parser_parseHeader(header) ==
  LET headerChecksum == decodeChecksum(header)
      calculatedChecksum == calculateChecksum(header)
  IN  IF headerChecksum # calculatedChecksum
      THEN [err |-> "InvalidHeader", token |-> NoToken]
      ELSE IF decodeUstarMagic(header) # USTAR_NAME
      THEN [err |-> "InvalidHeader", token |-> NoToken]
      ELSE IF decodeUstarVersion(header) # USTAR_VERSION
      THEN [err |-> "InvalidHeader", token |-> NoToken]
      ELSE IF decodeFileType(header) = "invalid"
      THEN [err |-> "InvalidHeader", token |-> NoToken]
      ELSE [err |-> "none",
            token |-> [type |-> "header",
                       filePath |-> decodeFilePath(header),
                       fileType |-> decodeFileType(header),
                       fileMode |-> decodeFileMode(header),
                       fileMtime |-> decodeFileMtime(header),
                       fileSize |-> decodeFileSize(header),
                       ownerGid |-> decodeOwnerGid(header),
                       ownerUid |-> decodeOwnerUid(header),
                       ownerUserName |-> decodeOwnerUserName(header),
                       ownerGroupName |-> decodeOwnerGroupName(header)]]

\* parseData that takes a last full block for an inner one
Parser_parseData_OffByOne(array, remainingBytes) ==
  IF remainingBytes >= 512
  THEN [type |-> "data", data |-> array, end |-> FALSE]
  ELSE [type |-> "data", data |-> extractBytesTo(array, remainingBytes),
        end |-> TRUE]

Parser_parseData(array, remainingBytes) ==
  IF remainingBytes > 512
  THEN [type |-> "data", data |-> array, end |-> FALSE]
  ELSE [type |-> "data", data |-> extractBytesTo(array, remainingBytes),
        end |-> TRUE]

\* write without the check of the length of the block
Parser_write_AnyLength(parser, data) ==
  IF FALSE
  THEN [err |-> "BlockSize", parser |-> parser, token |-> NoToken]
  ELSE CASE parser.state = "ENDED" ->
         [err |-> "EndOfArchive", parser |-> parser, token |-> NoToken]
    [] parser.state = "HEADER" ->
         IF isNullBlock(data)
         THEN [err |-> "none", parser |-> [parser EXCEPT !.state = "NULL"],
               token |-> NoToken]
         ELSE LET h == Parser_parseHeader(data)
                  headerToken == h.token
              IN  IF h.err # "none"
                  THEN [err |-> h.err, parser |-> parser, token |-> NoToken]
                  ELSE [err |-> "none",
                        parser |->
                          IF headerToken.fileType = "file"
                          THEN IF headerToken.fileSize # 0
                               THEN [state |-> "DATA",
                                     remainingBytes |-> headerToken.fileSize]
                               ELSE parser
                          ELSE IF headerToken.fileType = "extended"
                          THEN [state |-> "DATA",
                                remainingBytes |-> headerToken.fileSize]
                          ELSE parser,
                        token |-> headerToken]
    [] parser.state = "DATA" ->
         LET parsedData == Parser_parseData(data, parser.remainingBytes)
             r == parser.remainingBytes - BLOCK_SIZE
         IN  [err |-> "none",
              parser |-> [state |-> IF r <= 0 THEN "HEADER" ELSE parser.state,
                          remainingBytes |-> r],
              token |-> parsedData]
    [] parser.state = "NULL" ->
         IF isNullBlock(data)
         THEN [err |-> "none", parser |-> [parser EXCEPT !.state = "ENDED"],
               token |-> [type |-> "end"]]
         ELSE [err |-> "EndOfArchive", parser |-> parser, token |-> NoToken]

\* write that takes a block after the End token for the next header
Parser_write_Restarts(parser, data) ==
  IF Len(data) # BLOCK_SIZE
  THEN [err |-> "BlockSize", parser |-> parser, token |-> NoToken]
  ELSE CASE parser.state \in {"HEADER", "ENDED"} ->
         IF isNullBlock(data)
         THEN [err |-> "none", parser |-> [parser EXCEPT !.state = "NULL"],
               token |-> NoToken]
         ELSE LET h == Parser_parseHeader(data)
                  headerToken == h.token
              IN  IF h.err # "none"
                  THEN [err |-> h.err, parser |-> parser, token |-> NoToken]
                  ELSE [err |-> "none",
                        parser |->
                          IF headerToken.fileType = "file"
                          THEN IF headerToken.fileSize # 0
                               THEN [state |-> "DATA",
                                     remainingBytes |-> headerToken.fileSize]
                               ELSE parser
                          ELSE IF headerToken.fileType = "extended"
                          THEN [state |-> "DATA",
                                remainingBytes |-> headerToken.fileSize]
                          ELSE parser,
                        token |-> headerToken]
    [] parser.state = "DATA" ->
         LET parsedData == Parser_parseData(data, parser.remainingBytes)
             r == parser.remainingBytes - BLOCK_SIZE
         IN  [err |-> "none",
              parser |-> [state |-> IF r <= 0 THEN "HEADER" ELSE parser.state,
                          remainingBytes |-> r],
              token |-> parsedData]
    [] parser.state = "NULL" ->
         IF isNullBlock(data)
         THEN [err |-> "none", parser |-> [parser EXCEPT !.state = "ENDED"],
               token |-> [type |-> "end"]]
         ELSE [err |-> "EndOfArchive", parser |-> parser, token |-> NoToken]

\* write that expects data after every file header, whatever its size
Parser_write_DataAfterEmptyFile(parser, data) ==
  IF Len(data) # BLOCK_SIZE
  THEN [err |-> "BlockSize", parser |-> parser, token |-> NoToken]
  ELSE CASE parser.state = "ENDED" ->
         [err |-> "EndOfArchive", parser |-> parser, token |-> NoToken]
    [] parser.state = "HEADER" ->
         IF isNullBlock(data)
         THEN [err |-> "none", parser |-> [parser EXCEPT !.state = "NULL"],
               token |-> NoToken]
         ELSE LET h == Parser_parseHeader(data)
                  headerToken == h.token
              IN  IF h.err # "none"
                  THEN [err |-> h.err, parser |-> parser, token |-> NoToken]
                  ELSE [err |-> "none",
                        parser |->
                          IF headerToken.fileType = "file"
                          THEN [state |-> "DATA",
                                remainingBytes |-> headerToken.fileSize]
                          ELSE IF headerToken.fileType = "extended"
                          THEN [state |-> "DATA",
                                remainingBytes |-> headerToken.fileSize]
                          ELSE parser,
                        token |-> headerToken]
    [] parser.state = "DATA" ->
         LET parsedData == Parser_parseData(data, parser.remainingBytes)
             r == parser.remainingBytes - BLOCK_SIZE
         IN  [err |-> "none",
              parser |-> [state |-> IF r <= 0 THEN "HEADER" ELSE parser.state,
                          remainingBytes |-> r],
              token |-> parsedData]
    [] parser.state = "NULL" ->
         IF isNullBlock(data)
         THEN [err |-> "none", parser |-> [parser EXCEPT !.state = "ENDED"],
               token |-> [type |-> "end"]]
         ELSE [err |-> "EndOfArchive", parser |-> parser, token |-> NoToken]

Parser_write(parser, data) ==
  IF Len(data) # BLOCK_SIZE
  THEN [err |-> "BlockSize", parser |-> parser, token |-> NoToken]
  ELSE CASE parser.state = "ENDED" ->
         [err |-> "EndOfArchive", parser |-> parser, token |-> NoToken]
    [] parser.state = "HEADER" ->
         IF isNullBlock(data)
         THEN [err |-> "none", parser |-> [parser EXCEPT !.state = "NULL"],
               token |-> NoToken]
         ELSE LET h == Parser_parseHeader(data)
                  headerToken == h.token
              IN  IF h.err # "none"
                  THEN [err |-> h.err, parser |-> parser, token |-> NoToken]
                  ELSE [err |-> "none",
                        parser |->
                          IF headerToken.fileType = "file"
                          THEN IF headerToken.fileSize # 0
                               THEN [state |-> "DATA",
                                     remainingBytes |-> headerToken.fileSize]
                               ELSE parser
                          ELSE IF headerToken.fileType = "extended"
                          THEN [state |-> "DATA",
                                remainingBytes |-> headerToken.fileSize]
                          ELSE parser,
                        token |-> headerToken]
    [] parser.state = "DATA" ->
         LET parsedData == Parser_parseData(data, parser.remainingBytes)
             r == parser.remainingBytes - BLOCK_SIZE
         IN  [err |-> "none",
              parser |-> [state |-> IF r <= 0 THEN "HEADER" ELSE parser.state,
                          remainingBytes |-> r],
              token |-> parsedData]
    [] parser.state = "NULL" ->
         IF isNullBlock(data)
         THEN [err |-> "none", parser |-> [parser EXCEPT !.state = "ENDED"],
               token |-> [type |-> "end"]]
         ELSE [err |-> "EndOfArchive", parser |-> parser, token |-> NoToken]

(***************************************************************************)
(* Inputs                                                                  *)
(***************************************************************************)
\* The largest number of whole blocks of data a modelled file has
MaxBlocks == 2

\* A path of n characters 'a'..'z', its i-th character decided by i
PathOfLen(n) == [i \in 1..n |-> 97 + (i % 26)]

\* The content of a file of n bytes: no byte is zero, and the bytes differ
\* along the file
ContentOfLen(n) == [i \in 1..n |-> 1 + ((7 * i) % 251)]

\* File sizes: block multiples and one byte more
FileSizes == {b * BLOCK_SIZE + d : b \in 0..MaxBlocks, d \in {0, 1}}

\* Lengths of the buffers passed to generateData: a short one, a full
\* block, and one byte too many
DataLens == {1, BLOCK_SIZE, BLOCK_SIZE + 1}

(***************************************************************************)
(* Specification Spec: a Generator driven by arbitrary calls; every block  *)
(* a call returns is written to a Parser, until a write throws: the        *)
(* exception ends the pipeline, and the Generator is driven on alone.      *)
(***************************************************************************)
VARIABLES
  generator,  \* the Generator's fields
  gLast,      \* the last Generator call: op, err, the state and remaining
              \* count before it, the size passed (in the stat, or to
              \* generateExtended), the buffer length, the block length
  gHist,      \* the last successful generateFile/generateExtended and the
              \* number of successful generateData calls since
  parser,     \* the Parser's fields
  pLast,      \* the last Parser.write: err and a summary of its token
  pHist       \* the last header token that opened a data section, and
              \* the data tokens returned since (dropped when write throws)

varsGP == <<generator, gLast, gHist, parser, pLast, pHist>>

\* Specification SpecRT (the round trip of the integration test)
VARIABLES
  rtGen,     \* the Generator
  rtPar,     \* the Parser
  rtPhase,   \* what the driver emits next: header, data, end, done
  rtCur,     \* the entry whose blocks are being emitted
  rtOff,     \* the offset of the next data chunk in the entry's content
  rtCount,   \* the number of entries emitted
  rtFail     \* the first way in which a token differed from its entry

varsRT == <<rtGen, rtPar, rtPhase, rtCur, rtOff, rtCount, rtFail>>

\* Specification SpecVTG (VirtualTarGenerator and a consumer of yieldChunks)
VARIABLES
  vtgGenerator,           \* this.generator
  vtgQueue,               \* this.queue: the enqueued operations, as indices
                          \* into vtgOps
  vtgEnded,               \* this.ended
  vtgResolveWaitChunksP,  \* this.resolveWaitChunksP is set
  vtgWaitChunksP,         \* the promise yieldChunks awaits on an empty queue
  vtgResolveSettledP,     \* this.resolveSettledP is set
  vtgSettledP,            \* the promise of the latest settled() call
  vtgPc,                  \* where yieldChunks is suspended: start, yield,
                          \* wait; or done, threw
  vtgCur,                 \* the operation yieldChunks delegates to and the
                          \* index of the block it yields next
  vtgOps,                 \* every operation enqueued so far, in call order
  vtgOut                  \* the blocks the consumer has received

varsVTG == <<vtgGenerator, vtgQueue, vtgEnded, vtgResolveWaitChunksP,
             vtgWaitChunksP, vtgResolveSettledP, vtgSettledP, vtgPc, vtgCur,
             vtgOps, vtgOut>>

\* Specification SpecVTP (VirtualTarParser, its callbacks and a writer)
VARIABLES
  vtpParser,            \* this.parser
  vtpAccumulator,       \* this.accumulator
  vtpWorkingToken,      \* this.workingToken: its fileType, and the callback
                        \* dispatched for it
  vtpDataQueue,         \* this.dataQueue
  vtpExtendedMetadata,  \* this.extendedMetadata
  vtpPendingCallbacks,  \* this.pendingCallbacks
  vtpResolveDataP,      \* this.resolveDataP: the promise it resolves, else 0
  vtpResolveSettledP,   \* this.resolveSettledP: the promise it resolves,
                        \* else 0
  vtpDataPs,            \* the promises created by the data generators
  vtpSettledPs,         \* the promises created by settled()
  vtpCallbacks,         \* the callbacks dispatched so far, in order
  vtpProduced,          \* per callback, the Data tokens the Parser returned
                        \* for its file
  vtpWrite,             \* the write() call in progress
  vtpOnEnd,             \* the number of calls of onEnd
  vtpSettledCall,       \* the settled() call of the writer
  vtpArchive,           \* the archive being written
  vtpRest,              \* its bytes not yet passed to write()
  vtpOnFile             \* whether the constructor was given onFile

varsVTP == <<vtpParser, vtpAccumulator, vtpWorkingToken, vtpDataQueue,
             vtpExtendedMetadata, vtpPendingCallbacks, vtpResolveDataP,
             vtpResolveSettledP, vtpDataPs, vtpSettledPs, vtpCallbacks,
             vtpProduced, vtpWrite, vtpOnEnd, vtpSettledCall, vtpArchive,
             vtpRest, vtpOnFile>>

\* Specification SpecPar (a Parser written to with arbitrary blocks)
VARIABLES
  parParser,  \* the Parser's fields
  parLast,    \* the last write: the block passed, the Parser's fields before
              \* it, the error thrown and the type of the token returned
  parPrev,    \* the write before the last
  parEnds     \* the number of End tokens returned

varsPar == <<parParser, parLast, parPrev, parEnds>>

\* Specification SpecPath (paths written to headers and read back)
VARIABLES
  fpPath,     \* the path passed in
  fpPc,       \* "input", then the operation applied, then "decoded"
  fpSize,     \* the size of the stat passed to generateDirectory
  fpHeader,   \* the header block written
  fpErr,      \* the error thrown, else "none"
  fpDecoded   \* the path and the size decoded from fpHeader

varsPath == <<fpPath, fpPc, fpSize, fpHeader, fpErr, fpDecoded>>

vars == <<varsGP, varsRT, varsVTG, varsVTP, varsPar, varsPath>>

NoCall == [op |-> "none", err |-> "none", pre |-> "HEADER", preRemaining |-> 0,
           size |-> 0, dataLen |-> 0, len |-> 0]

NoHist == [kind |-> "none", size |-> 0, count |-> 0, bytes |-> 0,
           lastLen |-> 0, lastEnd |-> FALSE]

NoWrite == [err |-> "none", type |-> "none"]

\* The history of the data section after a Generator call returned r.
\* generateExtended opens a data section even when it throws, as its fields
\* are assigned before the header is built.
GenHistAfter(op, r, size) ==
  IF op = "generateExtended" /\ generator.state = "HEADER"
  THEN [NoHist EXCEPT !.kind = "extended", !.size = size]
  ELSE IF r.err # "none" THEN gHist
  ELSE CASE op = "generateFile" ->
              IF size # 0
              THEN [NoHist EXCEPT !.kind = "file", !.size = size]
              ELSE NoHist
         [] op = "generateData" -> [gHist EXCEPT !.count = @ + 1]
         [] OTHER -> IF op = "generateDirectory" THEN NoHist ELSE gHist

\* The history of the data section after Parser.write returned w
ParHistAfter(w) ==
  IF w.err # "none" THEN NoHist
  ELSE CASE w.token.type = "header" ->
              IF w.parser.state = "DATA"
              THEN [NoHist EXCEPT !.kind = w.token.fileType,
                                  !.size = w.token.fileSize]
              ELSE NoHist
         [] w.token.type = "data" ->
              [pHist EXCEPT !.count = @ + 1,
                            !.bytes = @ + Len(w.token.data),
                            !.lastLen = Len(w.token.data),
                            !.lastEnd = w.token.end]
         [] OTHER -> pHist

WriteSummary(w) ==
  [err |-> w.err, type |-> w.token.type]

\* Parser.write(block) and its record
FeedParser(block) ==
  \E w \in {Parser_write(parser, block)} :
      /\ parser' = w.parser
      /\ pLast' = WriteSummary(w)
      /\ pHist' = ParHistAfter(w)

\* A Generator call that returned r; its block, if any, goes to the Parser
GenCall(op, r, size, dataLen) ==
  /\ gLast' = [op |-> op, err |-> r.err, pre |-> generator.state,
               preRemaining |-> generator.remainingBytes, size |-> size,
               dataLen |-> dataLen, len |-> Len(r.block)]
  /\ generator' = r.gen
  /\ gHist' = GenHistAfter(op, r, size)
  /\ IF r.err = "none" /\ pLast.err = "none"
     THEN FeedParser(r.block)
     ELSE UNCHANGED <<parser, pLast, pHist>>
  /\ UNCHANGED <<varsRT, varsVTG, varsVTP, varsPar, varsPath>>

DoGenerateFile ==
  \E size \in FileSizes :
    \E r \in {Generator_generateFile(generator, PathOfLen(1),
                                     [size |-> size])} :
      GenCall("generateFile", r, size, 0)

DoGenerateDirectory ==
  \E size \in {0, BLOCK_SIZE} :
    \E r \in {Generator_generateDirectory(generator, PathOfLen(1),
                                          [size |-> size])} :
      GenCall("generateDirectory", r, size, 0)

DoGenerateExtended ==
  \E size \in FileSizes :
    \E r \in {Generator_generateExtended(generator, size)} :
      GenCall("generateExtended", r, size, 0)

DoGenerateData ==
  \E n \in DataLens :
    \E r \in {Generator_generateData(generator, ContentOfLen(n))} :
      GenCall("generateData", r, 0, n)

DoGenerateEnd ==
  \E r \in {Generator_generateEnd(generator)} :
    GenCall("generateEnd", r, 0, 0)

NextGP ==
  \/ DoGenerateFile
  \/ DoGenerateDirectory
  \/ DoGenerateExtended
  \/ DoGenerateData
  \/ DoGenerateEnd

(***************************************************************************)
(* Specification SpecRT: the generator-parser round trip of the            *)
(* integration test.  A driver emits, for a sequence of entries, each      *)
(* entry's header and data blocks and then two generateEnd blocks; every   *)
(* block is written to a fresh Parser and the token is compared with the   *)
(* entry.                                                                  *)
(***************************************************************************)
\* The largest number of entries of an archive
MaxEntries == 2

\* Path lengths: the shortest, the name field's size, and two lengths that
\* need the prefix field
PathLens == {1, HEADER_SIZE.FILE_NAME, 2 * HEADER_SIZE.FILE_NAME + 1,
             STANDARD_PATH_SIZE}

\* 0o755, and the smallest uid/gid of the tests
EntryStat(size) ==
  [size |-> size, mode |-> 493, uid |-> 1000, gid |-> 1000, mtime |-> 0]

\* The path of an entry: a directory's path ends with '/'
EntryPath(e) ==
  IF e.type = "directory" THEN Append(PathOfLen(e.pathLen - 1), 47)
  ELSE PathOfLen(e.pathLen)

EntryChoices ==
  [type : {"file"}, pathLen : PathLens, size : {0, 1, BLOCK_SIZE + 1}]
    \cup [type : {"directory"}, pathLen : PathLens, size : {0}]

NoEntry == [type |-> "none", pathLen |-> 0, size |-> 0]

\* How the header token of write result w differs from entry e
HeaderMismatch(e, w) ==
  LET stat == EntryStat(e.size)
  IN  CASE w.err # "none" -> "error"
        [] w.token.type # "header" -> "token"
        [] w.token.fileType # e.type -> "type"
        [] w.token.filePath # EntryPath(e) -> "path"
        [] w.token.fileSize # e.size -> "size"
        [] w.token.fileMode # stat.mode \/ w.token.ownerUid # stat.uid
             \/ w.token.ownerGid # stat.gid
             \/ w.token.fileMtime # stat.mtime -> "stat"
        [] OTHER -> "none"

\* How the data token of write result w differs from the chunk
DataMismatch(chunk, last, w) ==
  CASE w.err # "none" -> "error"
    [] w.token.type # "data" -> "token"
    [] w.token.data # chunk -> "data"
    [] w.token.end # last -> "end"
    [] OTHER -> "none"

Note(mismatch) == IF rtFail = "none" THEN mismatch ELSE rtFail

RTHeader ==
  /\ rtPhase = "header"
  /\ rtCount < MaxEntries
  /\ \E e \in EntryChoices :
       \E r \in {IF e.type = "file"
                 THEN Generator_generateFile(rtGen, EntryPath(e),
                                             EntryStat(e.size))
                 ELSE Generator_generateDirectory(rtGen, EntryPath(e),
                                                  EntryStat(e.size))} :
       \E w \in {Parser_write(rtPar, r.block)} :
           /\ rtGen' = r.gen
           /\ rtPar' = w.parser
           /\ rtCur' = e
           /\ rtOff' = 0
           /\ rtCount' = rtCount + 1
           /\ rtFail' = Note(IF r.err # "none" THEN "generator"
                             ELSE HeaderMismatch(e, w))
           /\ rtPhase' = IF e.type = "file" /\ e.size > 0
                         THEN "data" ELSE "header"
           /\ UNCHANGED <<varsGP, varsVTG, varsVTP, varsPar, varsPath>>

RTData ==
  /\ rtPhase = "data"
  /\ \E chunk \in {Slice(ContentOfLen(rtCur.size), rtOff,
                           rtOff + BLOCK_SIZE)} :
     \E r \in {Generator_generateData(rtGen, chunk)} :
     \E w \in {Parser_write(rtPar, r.block)} :
     \E last \in {rtOff + BLOCK_SIZE >= rtCur.size} :
         /\ rtGen' = r.gen
         /\ rtPar' = w.parser
         /\ rtOff' = rtOff + BLOCK_SIZE
         /\ rtFail' = Note(IF r.err # "none" THEN "generator"
                           ELSE DataMismatch(chunk, last, w))
         /\ rtPhase' = IF last THEN "header" ELSE "data"
         /\ UNCHANGED <<rtCur, rtCount>>
         /\ UNCHANGED <<varsGP, varsVTG, varsVTP, varsPar, varsPath>>

\* The two generateEnd blocks: the first gives no token, the second End
RTEnd ==
  /\ rtPhase \in {"header", "end"}
  /\ rtCount >= 1
  /\ \E r \in {Generator_generateEnd(rtGen)} :
     \E w \in {Parser_write(rtPar, r.block)} :
     \E want \in {IF rtPhase = "header" THEN "none" ELSE "end"} :
         /\ rtGen' = r.gen
         /\ rtPar' = w.parser
         /\ rtFail' = Note(IF r.err # "none" THEN "generator"
                           ELSE IF w.err # "none" THEN "error"
                           ELSE IF w.token.type # want THEN "token"
                           ELSE "none")
         /\ rtPhase' = IF rtPhase = "header" THEN "end" ELSE "done"
         /\ UNCHANGED <<rtCur, rtOff, rtCount>>
         /\ UNCHANGED <<varsGP, varsVTG, varsVTP, varsPar, varsPath>>

NextRT == RTHeader \/ RTData \/ RTEnd

(***************************************************************************)
(* Specification SpecVTG: VirtualTarGenerator.  addFile, addDirectory,     *)
(* finalize and settled are called in any order while a consumer pulls     *)
(* blocks from yieldChunks.  An enqueued operation is an async generator   *)
(* that calls the Generator when it is run, not when it is enqueued.       *)
(***************************************************************************)
MaxOps == 3

NoCur == [op |-> 0, idx |-> 0]

\* The data buffers passed to addFile, by length; stat.size is that length
OpSizes == {0, BLOCK_SIZE + 1}

\* The number of blocks the async generator of an operation yields
OpBlocks(op) ==
  CASE op.kind = "file" -> 1 + CeilBlocks(op.size)
    [] op.kind = "directory" -> 1
    [] op.kind = "end" -> 2

\* The Generator call behind the idx-th block (from 0) of an operation
OpBlock(gen, op, idx) ==
  CASE op.kind = "file" ->
         IF idx = 0
         THEN Generator_generateFile(gen, PathOfLen(1), EntryStat(op.size))
         ELSE Generator_generateData(gen,
                Slice(ContentOfLen(op.size), (idx - 1) * BLOCK_SIZE,
                      idx * BLOCK_SIZE))
    [] op.kind = "directory" ->
         Generator_generateDirectory(gen, <<100, 47>>, EntryStat(0))
    [] op.kind = "end" -> Generator_generateEnd(gen)

\* this.queue.pop(): the newest operation instead of the oldest
QueuePop(queue) ==
  [gen |-> queue[Len(queue)], rest |-> SubSeq(queue, 1, Len(queue) - 1)]

\* this.queue.shift()
QueueShift(queue) == [gen |-> Head(queue), rest |-> Tail(queue)]

\* yieldChunks that waits on an empty queue whether or not ended is set
yieldChunks_IgnoresEnded(queue, cur, gen, ended) ==
  LET more == cur.op # 0 /\ cur.idx < OpBlocks(vtgOps[cur.op])
  IN  IF ~more /\ queue = <<>>
      THEN [pc |-> "wait", queue |-> queue, cur |-> NoCur, gen |-> gen,
            out |-> <<>>]
      ELSE LET c == IF more THEN cur
                    ELSE [op |-> QueueShift(queue).gen, idx |-> 0]
               q == IF more THEN queue ELSE QueueShift(queue).rest
               r == OpBlock(gen, vtgOps[c.op], c.idx)
           IN  IF r.err # "none"
               THEN [pc |-> "threw", queue |-> q, cur |-> NoCur,
                     gen |-> r.gen, out |-> <<>>]
               ELSE [pc |-> "yield", queue |-> q,
                     cur |-> [c EXCEPT !.idx = @ + 1], gen |-> r.gen,
                     out |-> <<[op |-> c.op, idx |-> c.idx,
                                zero |-> isNullBlock(r.block)]>>]

\* yieldChunks, run from where it is suspended to its next suspension: the
\* next yield of the operation it delegates to, else of the operation it
\* shifts from the queue; on an empty queue it returns when ended is set and
\* otherwise awaits a new promise.  An exception of the Generator ends it.
yieldChunks(queue, cur, gen, ended) ==
  LET more == cur.op # 0 /\ cur.idx < OpBlocks(vtgOps[cur.op])
  IN  IF ~more /\ queue = <<>>
      THEN [pc |-> IF ended THEN "done" ELSE "wait", queue |-> queue,
            cur |-> NoCur, gen |-> gen, out |-> <<>>]
      ELSE LET c == IF more THEN cur
                    ELSE [op |-> QueueShift(queue).gen, idx |-> 0]
               q == IF more THEN queue ELSE QueueShift(queue).rest
               r == OpBlock(gen, vtgOps[c.op], c.idx)
           IN  IF r.err # "none"
               THEN [pc |-> "threw", queue |-> q, cur |-> NoCur,
                     gen |-> r.gen, out |-> <<>>]
               ELSE [pc |-> "yield", queue |-> q,
                     cur |-> [c EXCEPT !.idx = @ + 1], gen |-> r.gen,
                     out |-> <<[op |-> c.op, idx |-> c.idx,
                                zero |-> isNullBlock(r.block)]>>]

\* The effect of a run of yieldChunks on the facade
RunYieldChunks ==
  \E y \in {yieldChunks(vtgQueue, vtgCur, vtgGenerator, vtgEnded)} :
      /\ vtgPc' = y.pc
      /\ vtgQueue' = y.queue
      /\ vtgCur' = y.cur
      /\ vtgGenerator' = y.gen
      /\ vtgOut' = vtgOut \o y.out
      /\ IF y.pc = "wait"
         THEN /\ vtgSettledP' = IF vtgResolveSettledP /\ vtgSettledP = "pending"
                                THEN "resolved" ELSE vtgSettledP
              /\ vtgWaitChunksP' = "pending"
              /\ vtgResolveWaitChunksP' = TRUE
         ELSE UNCHANGED <<vtgSettledP, vtgWaitChunksP, vtgResolveWaitChunksP>>
      /\ UNCHANGED <<vtgEnded, vtgResolveSettledP, vtgOps>>

\* queue.push of a new operation
Enqueue(op) ==
  /\ Len(vtgOps) < MaxOps
  /\ vtgOps' = Append(vtgOps, op)
  /\ vtgQueue' = Append(vtgQueue, Len(vtgOps) + 1)

\* if (resolveWaitChunksP != null) { resolveWaitChunksP(); ... = undefined }
SignalWaitChunks ==
  IF vtgResolveWaitChunksP
  THEN /\ vtgWaitChunksP' = "resolved"
       /\ vtgResolveWaitChunksP' = FALSE
  ELSE UNCHANGED <<vtgWaitChunksP, vtgResolveWaitChunksP>>

VTG_addFile ==
  /\ \E size \in OpSizes : Enqueue([kind |-> "file", size |-> size])
  /\ SignalWaitChunks
  /\ UNCHANGED <<vtgGenerator, vtgEnded, vtgResolveSettledP, vtgSettledP,
                 vtgPc, vtgCur, vtgOut>>
  /\ UNCHANGED <<varsGP, varsRT, varsVTP, varsPar, varsPath>>

VTG_addDirectory ==
  /\ Enqueue([kind |-> "directory", size |-> 0])
  /\ UNCHANGED <<vtgWaitChunksP, vtgResolveWaitChunksP>>
  /\ UNCHANGED <<vtgGenerator, vtgEnded, vtgResolveSettledP, vtgSettledP,
                 vtgPc, vtgCur, vtgOut>>
  /\ UNCHANGED <<varsGP, varsRT, varsVTP, varsPar, varsPath>>

VTG_finalize ==
  /\ Enqueue([kind |-> "end", size |-> 0])
  /\ SignalWaitChunks
  /\ vtgEnded' = TRUE
  /\ UNCHANGED <<vtgGenerator, vtgResolveSettledP, vtgSettledP, vtgPc,
                 vtgCur, vtgOut>>
  /\ UNCHANGED <<varsGP, varsRT, varsVTP, varsPar, varsPath>>

VTG_settled ==
  /\ vtgSettledP # "pending"
  /\ vtgResolveSettledP' = TRUE
  /\ vtgSettledP' = "pending"
  /\ UNCHANGED <<vtgGenerator, vtgQueue, vtgEnded, vtgResolveWaitChunksP,
                 vtgWaitChunksP, vtgPc, vtgCur, vtgOps, vtgOut>>
  /\ UNCHANGED <<varsGP, varsRT, varsVTP, varsPar, varsPath>>

\* The consumer calls next() on the generator yieldChunks returned
VTG_next ==
  /\ vtgPc \in {"start", "yield"}
  /\ RunYieldChunks
  /\ UNCHANGED <<varsGP, varsRT, varsVTP, varsPar, varsPath>>

\* The awaited promise is resolved: yieldChunks continues
VTG_resume ==
  /\ vtgPc = "wait"
  /\ vtgWaitChunksP = "resolved"
  /\ RunYieldChunks
  /\ UNCHANGED <<varsGP, varsRT, varsVTP, varsPar, varsPath>>

NextVTG ==
  \/ VTG_addFile
  \/ VTG_addDirectory
  \/ VTG_finalize
  \/ VTG_settled
  \/ VTG_next
  \/ VTG_resume

(***************************************************************************)
(* Specification SpecVTP: VirtualTarParser.  A writer passes an archive    *)
(* to write() chunk by chunk, awaiting each call, and calls settled()      *)
(* after the last one, as the integration test does.  onFile reads its     *)
(* data generator to the end with for await; onDirectory returns.  A       *)
(* promise is pending, resolved (with the token of a data promise), or     *)
(* consumed by the continuation that awaited it.                           *)
(***************************************************************************)
MaxWriteBlocks == 2

\* The lengths of the chunks passed to write()
ChunkLens ==
  {BLOCK_SIZE \div 2} \cup {k * BLOCK_SIZE : k \in 1..MaxWriteBlocks}

NoWorkingToken == [fileType |-> "none", cb |-> 0]

\* this.extendedMetadata: undefined, or the pairs decoded
NoMetadata == [defined |-> FALSE, data |-> <<>>]

\* The entries of the archives written
VTPEntries ==
  << <<[type |-> "file", size |-> BLOCK_SIZE + 1]>>,
     <<[type |-> "directory", size |-> 0], [type |-> "file", size |-> 1]>>,
     <<[type |-> "file", size |-> 0], [type |-> "file", size |-> BLOCK_SIZE]>>,
     <<[type |-> "file", size |-> BLOCK_SIZE + 1],
       [type |-> "file", size |-> 1]>>,
     \* path=p for a directory; a file follows
     <<[type |-> "extended", size |-> 0, data |-> <<<<FILE_PATH, <<112>>>>>>],
       [type |-> "directory", size |-> 0],
       [type |-> "file", size |-> 1]>>,
     \* path=p for a file, then path=q for a file
     <<[type |-> "extended", size |-> 0, data |-> <<<<FILE_PATH, <<112>>>>>>],
       [type |-> "file", size |-> 0],
       [type |-> "extended", size |-> 0, data |-> <<<<FILE_PATH, <<113>>>>>>],
       [type |-> "file", size |-> 1]>>,
     \* path=p for a file, then mtime=12 for a directory
     <<[type |-> "extended", size |-> 0, data |-> <<<<FILE_PATH, <<112>>>>>>],
       [type |-> "file", size |-> 1],
       [type |-> "extended", size |-> 0,
        data |-> <<<<<<109, 116, 105, 109, 101>>, <<49, 50>>>>>>],
       [type |-> "directory", size |-> 0]>> >>

\* The data blocks of a file, from generateData on each 512-byte chunk
RECURSIVE FileData(_, _, _)
FileData(gen, content, off) ==
  IF off >= Len(content) THEN <<>>
  ELSE CHOOSE bytes \in
         {r.block \o FileData(r.gen, content, off + BLOCK_SIZE) :
            r \in {Generator_generateData(
                     gen, Slice(content, off, off + BLOCK_SIZE))}} : TRUE

\* The header block of an entry and its data blocks
EntryBlocks(gen, e) ==
  CASE e.type = "file" ->
         CHOOSE bytes \in
           {h.block \o FileData(h.gen, ContentOfLen(e.size), 0) :
              h \in {Generator_generateFile(gen, <<102>>,
                                            EntryStat(e.size))}} : TRUE
    [] e.type = "directory" ->
         Generator_generateDirectory(gen, <<100, 47>>, EntryStat(0)).block
    [] e.type = "extended" ->
         CHOOSE bytes \in
           {h.block \o FileData(h.gen, payload, 0) :
              payload \in {encodeExtendedHeader(e.data).output},
              h \in {Generator_generateExtended(
                       gen, TotalByteSize(e.data))}} : TRUE

\* The archive the Generator makes of the entries and two generateEnd; the
\* Generator is back in HEADER after each entry
RECURSIVE ArchiveFrom(_, _)
ArchiveFrom(entries, i) ==
  IF i > Len(entries)
  THEN Generator_generateEnd(GeneratorNew).block
         \o Generator_generateEnd(Generator_generateEnd(GeneratorNew).gen).block
  ELSE EntryBlocks(GeneratorNew, entries[i]) \o ArchiveFrom(entries, i + 1)

Archives ==
  [a \in DOMAIN VTPEntries |-> ArchiveFrom(VTPEntries[a], 1)]

\* utils.concatUint8Arrays
RECURSIVE concatUint8Arrays(_)
concatUint8Arrays(arrays) ==
  IF arrays = <<>> THEN <<>>
  ELSE Head(arrays) \o concatUint8Arrays(Tail(arrays))

\* The fields of the VirtualTarParser, the promises and the callbacks
VTPFields ==
  [parser |-> vtpParser, accumulator |-> vtpAccumulator,
   workingToken |-> vtpWorkingToken, dataQueue |-> vtpDataQueue,
   extendedMetadata |-> vtpExtendedMetadata,
   pendingCallbacks |-> vtpPendingCallbacks,
   resolveDataP |-> vtpResolveDataP, resolveSettledP |-> vtpResolveSettledP,
   dataPs |-> vtpDataPs, settledPs |-> vtpSettledPs,
   callbacks |-> vtpCallbacks, produced |-> vtpProduced,
   write |-> vtpWrite, onEnd |-> vtpOnEnd, onFile |-> vtpOnFile]

\* Nothing decoded yet from a header
NoDecoded == [done |-> FALSE, path |-> <<>>, size |-> 0]

PendingDataP == [state |-> "pending", data |-> <<>>, end |-> FALSE]

\* A dispatched callback: running, reading (its data generator awaits the
\* promise awaits), or done; tokens and got count what it was yielded, ok
\* tells that these were the bytes of a file of its size
Callback(kind, path, size, state, awaits) ==
  [kind |-> kind, path |-> path, size |-> size, state |-> state,
   awaits |-> awaits, tokens |-> 0, got |-> 0, ok |-> TRUE]

\* case 'header': the callback is called at once and runs to its first
\* await; a file callback calls next() on its data generator, which returns
\* for a file of size 0 and else sets resolveDataP and awaits; the default
\* file callback never calls its data generator.  The path of
\* the stored extended metadata, if it has one, replaces the path of the
\* header, and the stored metadata is unset.
VTP_onHeader(f, token) ==
  LET filePath == IF f.extendedMetadata.defined
                     /\ MetadataPath(f.extendedMetadata.data).defined
                  THEN MetadataPath(f.extendedMetadata.data).value
                  ELSE token.filePath
      f0 == [f EXCEPT !.workingToken = NoWorkingToken,
                      !.extendedMetadata = NoMetadata]
      cb == Len(f.callbacks) + 1
      p == Len(f.dataPs) + 1
  IN  CASE token.fileType = "directory" ->
             [f0 EXCEPT !.callbacks =
                          Append(@, Callback("directory", filePath,
                                             token.fileSize, "running", 0)),
                        !.produced = Append(@, 0),
                        !.pendingCallbacks = @ \cup {cb}]
        [] token.fileType = "file" /\ (token.fileSize = 0 \/ ~f.onFile) ->
             [f0 EXCEPT !.workingToken = [fileType |-> "file", cb |-> cb],
                        !.callbacks =
                          Append(@, Callback("file", filePath,
                                             token.fileSize, "running", 0)),
                        !.produced = Append(@, 0),
                        !.pendingCallbacks = @ \cup {cb}]
        [] token.fileType = "file" /\ token.fileSize # 0 /\ f.onFile ->
             [f0 EXCEPT !.workingToken = [fileType |-> "file", cb |-> cb],
                        !.dataPs = Append(@, PendingDataP),
                        !.resolveDataP = p,
                        !.callbacks =
                          Append(@, Callback("file", filePath,
                                             token.fileSize, "reading", p)),
                        !.produced = Append(@, 0),
                        !.pendingCallbacks = @ \cup {cb}]
        [] token.fileType = "extended" ->
             [f0 EXCEPT !.workingToken = [fileType |-> "extended", cb |-> 0]]
        [] OTHER -> [f0 EXCEPT !.write = [pc |-> "threw", awaits |-> 0]]

\* The data case, had it kept the data of files in dataQueue as well
VTP_onData_BuffersFileData(f, token) ==
  [f EXCEPT !.dataQueue = Append(@, token.data),
            !.produced[f.workingToken.cb] =
              IF f.workingToken.fileType = "file" THEN @ + 1 ELSE @]

\* case 'data': the data of an extended header is pushed to dataQueue and,
\* with the last token, all of dataQueue is decoded; the data of a file is
\* passed to resolveDataP if that is set, which resolves its promise if
\* that is still pending; in every other case the token is let go
VTP_onData(f, token) ==
  IF f.workingToken.fileType = "extended"
  THEN CHOOSE g \in
         {IF ~token.end THEN [f EXCEPT !.dataQueue = q]
          ELSE CHOOSE h \in
                 {IF d.err # "none"
                  THEN [f EXCEPT !.dataQueue = q,
                                 !.write = [pc |-> "threw", awaits |-> 0]]
                  ELSE [f EXCEPT !.dataQueue = q,
                                 !.extendedMetadata =
                                   [defined |-> TRUE, data |-> d.data]] :
                    d \in {decodeExtendedHeader(concatUint8Arrays(q))}} :
                 TRUE :
            q \in {Append(f.dataQueue, token.data)}} : TRUE
  ELSE LET p == f.resolveDataP
           f1 == [f EXCEPT !.produced[f.workingToken.cb] = @ + 1]
       IN  IF p # 0 /\ f.dataPs[p].state = "pending"
           THEN [f1 EXCEPT !.dataPs[p] = [state |-> "resolved",
                                          data |-> token.data,
                                          end |-> token.end]]
           ELSE f1

\* The end case, had it not awaited the pending callbacks
VTP_onEnd_NeverWaits(f) ==
  [f EXCEPT !.write = [pc |-> "awaitSettled", awaits |-> 0]]

\* case 'end', up to await this.settled(): settled() returns at once when no
\* callback is pending and else awaits a new promise
VTP_onEnd(f) ==
  IF f.pendingCallbacks = {}
  THEN [f EXCEPT !.write = [pc |-> "awaitSettled", awaits |-> 0]]
  ELSE [f EXCEPT !.settledPs = Append(@, "pending"),
                 !.resolveSettledP = Len(f.settledPs) + 1,
                 !.write = [pc |-> "awaitSettled",
                            awaits |-> Len(f.settledPs) + 1]]

\* The token of a block acting on the fields, had a directory header
\* dispatched no callback
VTP_onToken_SkipsDirectory(f, w) ==
  IF w.err # "none"
  THEN [f EXCEPT !.parser = w.parser,
                 !.write = [pc |-> "threw", awaits |-> 0]]
  ELSE CASE w.token.type = "none" -> [f EXCEPT !.parser = w.parser]
         [] w.token.type = "header" ->
              IF w.token.fileType = "directory"
              THEN [f EXCEPT !.parser = w.parser,
                             !.workingToken = NoWorkingToken,
                             !.extendedMetadata = NoMetadata]
              ELSE VTP_onHeader([f EXCEPT !.parser = w.parser], w.token)
         [] w.token.type = "data" ->
              IF f.workingToken.fileType = "none"
              THEN [f EXCEPT !.parser = w.parser,
                             !.write = [pc |-> "threw", awaits |-> 0]]
              ELSE VTP_onData([f EXCEPT !.parser = w.parser], w.token)
         [] w.token.type = "end" ->
              VTP_onEnd([f EXCEPT !.parser = w.parser])

\* The loop of write() over the blocks of the accumulator, until it is
\* short of a block (write returns), the Parser or the facade throws, or
\* the End token suspends it
\* One block of the loop: the token w of the Parser acts on the fields
VTP_onToken(f, w) ==
  IF w.err # "none"
  THEN [f EXCEPT !.parser = w.parser,
                 !.write = [pc |-> "threw", awaits |-> 0]]
  ELSE CASE w.token.type = "none" -> [f EXCEPT !.parser = w.parser]
         [] w.token.type = "header" ->
              VTP_onHeader([f EXCEPT !.parser = w.parser], w.token)
         [] w.token.type = "data" ->
              IF f.workingToken.fileType = "none"
              THEN [f EXCEPT !.parser = w.parser,
                             !.write = [pc |-> "threw", awaits |-> 0]]
              ELSE VTP_onData([f EXCEPT !.parser = w.parser], w.token)
         [] w.token.type = "end" ->
              VTP_onEnd([f EXCEPT !.parser = w.parser])

RECURSIVE VTP_writeLoop(_)
VTP_writeLoop(f) ==
  IF Len(f.accumulator) < BLOCK_SIZE
  THEN [f EXCEPT !.write = [pc |-> "idle", awaits |-> 0]]
  ELSE CHOOSE r \in
         {IF g.write.pc = "running" THEN VTP_writeLoop(g) ELSE g :
            g \in {VTP_onToken(
                     [f EXCEPT !.accumulator =
                                 SubSeq(@, BLOCK_SIZE + 1, Len(@))], w) :
                   w \in {Parser_write(f.parser,
                                       SubSeq(f.accumulator, 1,
                                              BLOCK_SIZE))}}} : TRUE

\* The fields after a run of the write loop
SetVTPFields(f) ==
  /\ vtpParser' = f.parser
  /\ vtpAccumulator' = f.accumulator
  /\ vtpWorkingToken' = f.workingToken
  /\ vtpDataQueue' = f.dataQueue
  /\ vtpExtendedMetadata' = f.extendedMetadata
  /\ vtpPendingCallbacks' = f.pendingCallbacks
  /\ vtpResolveDataP' = f.resolveDataP
  /\ vtpResolveSettledP' = f.resolveSettledP
  /\ vtpDataPs' = f.dataPs
  /\ vtpSettledPs' = f.settledPs
  /\ vtpCallbacks' = f.callbacks
  /\ vtpProduced' = f.produced
  /\ vtpWrite' = f.write
  /\ vtpOnEnd' = f.onEnd

\* await parser.write(chunk) with the next n bytes of the archive
VTP_write ==
  /\ vtpWrite.pc = "idle"
  /\ \E n \in ChunkLens :
       /\ n <= Len(vtpRest)
       /\ vtpRest' = SubSeq(vtpRest, n + 1, Len(vtpRest))
       /\ \E f0 \in {[VTPFields EXCEPT
                         !.accumulator = @ \o SubSeq(vtpRest, 1, n),
                         !.write = [pc |-> "running", awaits |-> 0]]} :
          \E f \in {VTP_writeLoop(f0)} : SetVTPFields(f)
  /\ UNCHANGED <<vtpSettledCall, vtpArchive, vtpOnFile>>
  /\ UNCHANGED <<varsGP, varsRT, varsVTG, varsPar, varsPath>>

\* The promise of settled() is resolved: write() calls endCallback and goes
\* on with its loop
VTP_writeResume ==
  /\ vtpWrite.pc = "awaitSettled"
  /\ vtpWrite.awaits # 0 => vtpSettledPs[vtpWrite.awaits] = "resolved"
  /\ \E f0 \in {[VTPFields EXCEPT
                    !.onEnd = @ + 1,
                    !.write = [pc |-> "running", awaits |-> 0]]} :
     \E f \in {VTP_writeLoop(f0)} : SetVTPFields(f)
  /\ UNCHANGED <<vtpSettledCall, vtpArchive, vtpRest, vtpOnFile>>
  /\ UNCHANGED <<varsGP, varsRT, varsVTG, varsPar, varsPath>>

\* p.finally: the callback leaves pendingCallbacks, and resolveSettledP, if
\* set, is called when none is left
CallbackSettles(cb) ==
  /\ vtpPendingCallbacks' = vtpPendingCallbacks \ {cb}
  /\ vtpSettledPs' =
       IF vtpResolveSettledP # 0 /\ vtpPendingCallbacks \ {cb} = {}
       THEN [vtpSettledPs EXCEPT ![vtpResolveSettledP] = "resolved"]
       ELSE vtpSettledPs

\* The promise a data generator awaits is resolved: it yields chunk.data to
\* the for await of its callback, which asks for the next; the generator
\* returns after the chunk with end set and the callback completes, else it
\* sets resolveDataP to a new promise and awaits it
VTP_dataNext ==
  /\ \E cb \in DOMAIN vtpCallbacks :
       LET c == vtpCallbacks[cb]
           chunk == vtpDataPs[c.awaits]
           c1 == [c EXCEPT !.tokens = @ + 1,
                           !.got = @ + Len(chunk.data),
                           !.ok = @ /\ chunk.data =
                                    Slice(ContentOfLen(c.size), c.got,
                                          c.got + Len(chunk.data))]
           taken == [vtpDataPs EXCEPT ![c.awaits] =
                       [state |-> "consumed", data |-> <<>>, end |-> FALSE]]
       IN  /\ c.state = "reading"
           /\ chunk.state = "resolved"
           /\ IF chunk.end
              THEN /\ vtpCallbacks' =
                        [vtpCallbacks EXCEPT
                           ![cb] = [c1 EXCEPT !.state = "done",
                                              !.awaits = 0]]
                   /\ vtpDataPs' = taken
                   /\ CallbackSettles(cb)
                   /\ UNCHANGED vtpResolveDataP
              ELSE /\ vtpCallbacks' =
                        [vtpCallbacks EXCEPT
                           ![cb] = [c1 EXCEPT !.awaits = Len(vtpDataPs) + 1]]
                   /\ vtpDataPs' = Append(taken, PendingDataP)
                   /\ vtpResolveDataP' = Len(vtpDataPs) + 1
                   /\ UNCHANGED <<vtpPendingCallbacks, vtpSettledPs>>
  /\ UNCHANGED <<vtpParser, vtpAccumulator, vtpWorkingToken, vtpDataQueue,
                 vtpExtendedMetadata, vtpResolveSettledP, vtpProduced,
                 vtpWrite, vtpOnEnd, vtpSettledCall, vtpArchive, vtpRest,
                 vtpOnFile>>
  /\ UNCHANGED <<varsGP, varsRT, varsVTG, varsPar, varsPath>>

\* A directory callback, or the callback of an empty file, completes
VTP_callbackReturns ==
  /\ \E cb \in DOMAIN vtpCallbacks :
       /\ vtpCallbacks[cb].state = "running"
       /\ vtpCallbacks' = [vtpCallbacks EXCEPT ![cb].state = "done"]
       /\ CallbackSettles(cb)
  /\ UNCHANGED <<vtpParser, vtpAccumulator, vtpWorkingToken, vtpDataQueue,
                 vtpExtendedMetadata, vtpResolveDataP, vtpResolveSettledP,
                 vtpDataPs, vtpProduced, vtpWrite, vtpOnEnd, vtpSettledCall,
                 vtpArchive, vtpRest, vtpOnFile>>
  /\ UNCHANGED <<varsGP, varsRT, varsVTG, varsPar, varsPath>>

\* await parser.settled(), after the last write() has returned
VTP_settled ==
  /\ vtpSettledCall.state = "none"
  /\ vtpWrite.pc = "idle"
  /\ vtpRest = <<>>
  /\ IF vtpPendingCallbacks = {}
     THEN /\ vtpSettledCall' = [state |-> "returned", awaits |-> 0]
          /\ UNCHANGED <<vtpSettledPs, vtpResolveSettledP>>
     ELSE /\ vtpSettledCall' = [state |-> "waiting",
                                awaits |-> Len(vtpSettledPs) + 1]
          /\ vtpSettledPs' = Append(vtpSettledPs, "pending")
          /\ vtpResolveSettledP' = Len(vtpSettledPs) + 1
  /\ UNCHANGED <<vtpParser, vtpAccumulator, vtpWorkingToken, vtpDataQueue,
                 vtpExtendedMetadata, vtpPendingCallbacks, vtpResolveDataP,
                 vtpDataPs, vtpCallbacks, vtpProduced, vtpWrite, vtpOnEnd,
                 vtpArchive, vtpRest, vtpOnFile>>
  /\ UNCHANGED <<varsGP, varsRT, varsVTG, varsPar, varsPath>>

\* A callback that has not completed throws (its promise is rejected);
\* p.finally runs for a rejected promise as well
VTP_callbackThrows ==
  /\ \E cb \in DOMAIN vtpCallbacks :
       /\ vtpCallbacks[cb].state \in {"running", "reading"}
       /\ vtpCallbacks' = [vtpCallbacks EXCEPT ![cb].state = "threw"]
       /\ CallbackSettles(cb)
  /\ UNCHANGED <<vtpParser, vtpAccumulator, vtpWorkingToken, vtpDataQueue,
                 vtpExtendedMetadata, vtpResolveDataP, vtpResolveSettledP,
                 vtpDataPs, vtpProduced, vtpWrite, vtpOnEnd, vtpSettledCall,
                 vtpArchive, vtpRest, vtpOnFile>>
  /\ UNCHANGED <<varsGP, varsRT, varsVTG, varsPar, varsPath>>

\* parser.settled() is called between two writes, or while the write() of
\* the End token is suspended
VTP_settledEarly ==
  /\ vtpSettledCall.state = "none"
  /\ \/ vtpWrite.pc = "idle" /\ vtpRest # <<>>
     \/ vtpWrite.pc = "awaitSettled"
  /\ IF vtpPendingCallbacks = {}
     THEN /\ vtpSettledCall' = [state |-> "returned", awaits |-> 0]
          /\ UNCHANGED <<vtpSettledPs, vtpResolveSettledP>>
     ELSE /\ vtpSettledCall' = [state |-> "waiting",
                                awaits |-> Len(vtpSettledPs) + 1]
          /\ vtpSettledPs' = Append(vtpSettledPs, "pending")
          /\ vtpResolveSettledP' = Len(vtpSettledPs) + 1
  /\ UNCHANGED <<vtpParser, vtpAccumulator, vtpWorkingToken, vtpDataQueue,
                 vtpExtendedMetadata, vtpPendingCallbacks, vtpResolveDataP,
                 vtpDataPs, vtpCallbacks, vtpProduced, vtpWrite, vtpOnEnd,
                 vtpArchive, vtpRest, vtpOnFile>>
  /\ UNCHANGED <<varsGP, varsRT, varsVTG, varsPar, varsPath>>

NextVTP ==
  \/ VTP_write
  \/ VTP_writeResume
  \/ VTP_dataNext
  \/ VTP_callbackReturns
  \/ VTP_settled

\* Specification SpecVTPE: the writer passes the next chunk only when no
\* callback can continue, so that every callback has taken what was
\* resolved for it before the next write(); the chunking alone decides a run
VTP_writeDrained ==
  /\ \A cb \in DOMAIN vtpCallbacks :
       /\ vtpCallbacks[cb].state # "running"
       /\ vtpCallbacks[cb].state = "reading" =>
            vtpDataPs[vtpCallbacks[cb].awaits].state # "resolved"
  /\ VTP_write

NextVTPE ==
  \/ VTP_writeDrained
  \/ VTP_writeResume
  \/ VTP_dataNext
  \/ VTP_callbackReturns
  \/ VTP_settled

\* Specification SpecVTPX: the callbacks may throw, onFile may be absent,
\* and settled() may be called at any time
NextVTPX ==
  \/ VTP_write
  \/ VTP_writeResume
  \/ VTP_dataNext
  \/ VTP_callbackReturns
  \/ VTP_callbackThrows
  \/ VTP_settled
  \/ VTP_settledEarly

(***************************************************************************)
(* Specification SpecPar: a Parser to which a caller writes arbitrary      *)
(* buffers, one per call, and goes on writing after a call has thrown:     *)
(* null blocks, the headers the Generator builds, data, headers with a     *)
(* wrong checksum, magic or version, and buffers that are not 512 bytes    *)
(* long.                                                                   *)
(***************************************************************************)
NoParWrite ==
  [kind |-> "none", size |-> 0, len |-> 0, pre |-> "HEADER",
   preRemaining |-> 0, err |-> "none", type |-> "none"]

\* The sizes in the file and extended headers written: no data, less than
\* a block, more than a block
ParSizes == {0, 1, BLOCK_SIZE + 1}

\* The buffers written, by what they hold
ParInputs ==
  [kind : {"null", "directory", "data", "badChecksum", "badMagic",
           "badVersion", "short", "long", "empty", "shortNull"},
   size : {0}]
    \cup [kind : {"file", "extended"}, size : ParSizes]

\* The header block of a file of size 0 with bytes written over a field and
\* the checksum written anew
HeaderWith(bytes, offset) ==
  LET h == Generator_generateHeader(PathOfLen(1), "file", [size |-> 0]).block
      h1 == writeBytesToArray(h, bytes, offset, Len(bytes))
  IN  writeChecksum(h1, calculateChecksum(h1))

ParBlock(d) ==
  CASE d.kind = "null" -> Zeros(BLOCK_SIZE)
    [] d.kind = "file" ->
         Generator_generateHeader(PathOfLen(1), "file",
                                  [size |-> d.size]).block
    [] d.kind = "directory" ->
         Generator_generateHeader(<<100, 47>>, "directory",
                                  [size |-> 0]).block
    [] d.kind = "extended" ->
         Generator_generateExtended(GeneratorNew, d.size).block
    [] d.kind = "data" -> ContentOfLen(BLOCK_SIZE)
    [] d.kind = "badChecksum" ->
         LET h == HeaderWith(<<>>, 0)
         IN  writeChecksum(h, calculateChecksum(h) + 1)
    \* 'ustaR'
    [] d.kind = "badMagic" ->
         HeaderWith(<<117, 115, 116, 97, 82>>, HEADER_OFFSET.USTAR_NAME)
    \* '01'
    [] d.kind = "badVersion" ->
         HeaderWith(<<48, 49>>, HEADER_OFFSET.USTAR_VERSION)
    [] d.kind = "short" -> SubSeq(HeaderWith(<<>>, 0), 1, BLOCK_SIZE - 1)
    [] d.kind = "long" -> HeaderWith(<<>>, 0) \o <<NUL>>
    [] d.kind = "empty" -> <<>>
    [] d.kind = "shortNull" -> Zeros(BLOCK_SIZE - 1)

\* parser.write(block), the caller catching what it throws
Par_write ==
  \E d \in ParInputs :
    \E b \in {ParBlock(d)} :
      \E w \in {Parser_write(parParser, b)} :
        /\ parParser' = w.parser
        /\ parLast' = [kind |-> d.kind, size |-> d.size, len |-> Len(b),
                       pre |-> parParser.state,
                       preRemaining |-> parParser.remainingBytes,
                       err |-> w.err, type |-> w.token.type]
        /\ parPrev' = parLast
        /\ parEnds' = parEnds + (IF w.token.type = "end" THEN 1 ELSE 0)
        /\ UNCHANGED <<varsGP, varsRT, varsVTG, varsVTP, varsPath>>

NextPar == Par_write

(***************************************************************************)
(* The specifications                                                      *)
(***************************************************************************)
(* Specification SpecPath: a path of 1 to 255 bytes, with or without a     *)
(* trailing '/', is written to an empty header block by writeFilePath or   *)
(* to a directory header by a fresh Generator, and read back by            *)
(* decodeFilePath and decodeFileSize.                                      *)
(***************************************************************************)
PathInputs ==
  {PathOfLen(n) : n \in 1..STANDARD_PATH_SIZE}
    \cup {Append(PathOfLen(n - 1), 47) : n \in 1..STANDARD_PATH_SIZE}

\* utils.writeFilePath(header, fpPath) on a new Uint8Array(BLOCK_SIZE)
FP_writeFilePath ==
  /\ fpPc = "input"
  /\ \E h \in {writeFilePath(Zeros(BLOCK_SIZE), fpPath)} : fpHeader' = h
  /\ fpPc' = "writeFilePath"
  /\ UNCHANGED <<fpPath, fpSize, fpErr, fpDecoded>>
  /\ UNCHANGED <<varsGP, varsRT, varsVTG, varsVTP, varsPar>>

\* new Generator().generateDirectory(fpPath, stat) with a size in stat
FP_generateDirectory ==
  /\ fpPc = "input"
  /\ \E size \in {0, 1, BLOCK_SIZE + 1} :
     \E r \in {Generator_generateDirectory(GeneratorNew, fpPath,
                                           EntryStat(size))} :
       /\ fpSize' = size
       /\ fpHeader' = r.block
       /\ fpErr' = r.err
  /\ fpPc' = "generateDirectory"
  /\ UNCHANGED <<fpPath, fpDecoded>>
  /\ UNCHANGED <<varsGP, varsRT, varsVTG, varsVTP, varsPar>>

\* decodeFilePath and decodeFileSize on the header written
FP_decode ==
  /\ fpPc \in {"writeFilePath", "generateDirectory"}
  /\ fpErr = "none"
  /\ ~fpDecoded.done
  /\ \E d \in {[done |-> TRUE, path |-> decodeFilePath(fpHeader),
                 size |-> decodeFileSize(fpHeader)]} : fpDecoded' = d
  /\ UNCHANGED <<fpPath, fpPc, fpSize, fpHeader, fpErr>>
  /\ UNCHANGED <<varsGP, varsRT, varsVTG, varsVTP, varsPar>>

NextPath ==
  \/ FP_writeFilePath
  \/ FP_generateDirectory
  \/ FP_decode

(***************************************************************************)
(* Specification SpecStat: one call of generateFile, generateDirectory or  *)
(* generateExtended on a new Generator, with a path whose length is at or  *)
(* beyond the limits and a size at or beyond the limit of generateHeader.  *)
(* Sizes are kept below 2^31.                                              *)
(***************************************************************************)
StatPathLens == {0, 1, STANDARD_PATH_SIZE, STANDARD_PATH_SIZE + 1, 300}

StatSizes ==
  {0, 1, BLOCK_SIZE, MAX_STAT_SIZE - 1, MAX_STAT_SIZE, MAX_STAT_SIZE + 1,
   2 * MAX_STAT_SIZE, 2147483647}

\* generator.generateFile(fpPath, { size: fpSize })
ST_generateFile ==
  /\ fpPc = "input"
  /\ \E r \in {Generator_generateFile(generator, fpPath,
                                       [size |-> fpSize])} :
       /\ generator' = r.gen
       /\ fpHeader' = r.block
       /\ fpErr' = r.err
  /\ fpPc' = "generateFile"
  /\ UNCHANGED <<fpPath, fpSize, fpDecoded>>
  /\ UNCHANGED <<gLast, gHist, parser, pLast, pHist>>
  /\ UNCHANGED <<varsRT, varsVTG, varsVTP, varsPar>>

\* generator.generateDirectory(fpPath, { size: fpSize })
ST_generateDirectory ==
  /\ fpPc = "input"
  /\ \E r \in {Generator_generateDirectory(generator, fpPath,
                                            [size |-> fpSize])} :
       /\ generator' = r.gen
       /\ fpHeader' = r.block
       /\ fpErr' = r.err
  /\ fpPc' = "generateDirectory"
  /\ UNCHANGED <<fpPath, fpSize, fpDecoded>>
  /\ UNCHANGED <<gLast, gHist, parser, pLast, pHist>>
  /\ UNCHANGED <<varsRT, varsVTG, varsVTP, varsPar>>

\* generator.generateExtended(fpSize)
ST_generateExtended ==
  /\ fpPc = "input"
  /\ \E r \in {Generator_generateExtended(generator, fpSize)} :
       /\ generator' = r.gen
       /\ fpHeader' = r.block
       /\ fpErr' = r.err
  /\ fpPc' = "generateExtended"
  /\ UNCHANGED <<fpPath, fpSize, fpDecoded>>
  /\ UNCHANGED <<gLast, gHist, parser, pLast, pHist>>
  /\ UNCHANGED <<varsRT, varsVTG, varsVTP, varsPar>>

NextStat ==
  \/ ST_generateFile
  \/ ST_generateDirectory
  \/ ST_generateExtended

(***************************************************************************)
(* Specification SpecPax: the record { path: fpPath } is encoded by        *)
(* encodeExtendedHeader and the bytes are decoded by decodeExtendedHeader. *)
(* The path lengths lie around the lengths at which the size of the record *)
(* takes one more digit, and beyond STANDARD_PATH_SIZE.                    *)
(***************************************************************************)
PaxPathLens == (1..15) \cup (88..95) \cup (256..262) \cup (988..994)

\* utils.encodeExtendedHeader({ path: fpPath })
PX_encodeExtendedHeader ==
  /\ fpPc = "input"
  /\ \E e \in {encodeExtendedHeader(<<<<FILE_PATH, fpPath>>>>)} :
       /\ fpHeader' = e.output
       /\ fpErr' = e.err
  /\ fpPc' = "encodeExtendedHeader"
  /\ UNCHANGED <<fpPath, fpSize, fpDecoded>>
  /\ UNCHANGED <<varsGP, varsRT, varsVTG, varsVTP, varsPar>>

\* utils.decodeExtendedHeader on the bytes encoded: the path of the record
\* returned, with the size the first line declares
PX_decodeExtendedHeader ==
  /\ fpPc = "encodeExtendedHeader"
  /\ fpErr = "none"
  /\ ~fpDecoded.done
  /\ \E d \in {decodeExtendedHeader(fpHeader)} :
       /\ fpErr' = d.err
       /\ fpDecoded' = [done |-> TRUE,
                        path |-> MetadataPath(d.data).value,
                        size |-> extractDecimal(fpHeader, 0, 32)]
  /\ UNCHANGED <<fpPath, fpPc, fpSize, fpHeader>>
  /\ UNCHANGED <<varsGP, varsRT, varsVTG, varsVTP, varsPar>>

NextPax ==
  \/ PX_encodeExtendedHeader
  \/ PX_decodeExtendedHeader

(***************************************************************************)
Init ==
  /\ generator = GeneratorNew
  /\ gLast = NoCall
  /\ gHist = NoHist
  /\ parser = ParserNew
  /\ pLast = NoWrite
  /\ pHist = NoHist
  /\ rtGen = GeneratorNew
  /\ rtPar = ParserNew
  /\ rtPhase = "idle"
  /\ rtCur = NoEntry
  /\ rtOff = 0
  /\ rtCount = 0
  /\ rtFail = "none"
  /\ vtgGenerator = GeneratorNew
  /\ vtgQueue = <<>>
  /\ vtgEnded = FALSE
  /\ vtgResolveWaitChunksP = FALSE
  /\ vtgWaitChunksP = "none"
  /\ vtgResolveSettledP = FALSE
  /\ vtgSettledP = "none"
  /\ vtgPc = "idle"
  /\ vtgCur = NoCur
  /\ vtgOps = <<>>
  /\ vtgOut = <<>>
  /\ vtpParser = ParserNew
  /\ vtpAccumulator = <<>>
  /\ vtpWorkingToken = NoWorkingToken
  /\ vtpDataQueue = <<>>
  /\ vtpExtendedMetadata = NoMetadata
  /\ vtpPendingCallbacks = {}
  /\ vtpResolveDataP = 0
  /\ vtpResolveSettledP = 0
  /\ vtpDataPs = <<>>
  /\ vtpSettledPs = <<>>
  /\ vtpCallbacks = <<>>
  /\ vtpProduced = <<>>
  /\ vtpWrite = [pc |-> "none", awaits |-> 0]
  /\ vtpOnEnd = 0
  /\ vtpSettledCall = [state |-> "none", awaits |-> 0]
  /\ vtpArchive = 0
  /\ vtpRest = <<>>
  /\ vtpOnFile = TRUE
  /\ parParser = ParserNew
  /\ parLast = NoParWrite
  /\ parPrev = NoParWrite
  /\ parEnds = 0
  /\ fpPath = <<>>
  /\ fpPc = "none"
  /\ fpSize = 0
  /\ fpHeader = <<>>
  /\ fpErr = "none"
  /\ fpDecoded = NoDecoded

Next == NextGP

Spec == Init /\ [][Next]_vars

InitSpecRT ==
  /\ generator = GeneratorNew
  /\ gLast = NoCall
  /\ gHist = NoHist
  /\ parser = ParserNew
  /\ pLast = NoWrite
  /\ pHist = NoHist
  /\ rtGen = GeneratorNew
  /\ rtPar = ParserNew
  /\ rtPhase = "header"
  /\ rtCur = NoEntry
  /\ rtOff = 0
  /\ rtCount = 0
  /\ rtFail = "none"
  /\ vtgGenerator = GeneratorNew
  /\ vtgQueue = <<>>
  /\ vtgEnded = FALSE
  /\ vtgResolveWaitChunksP = FALSE
  /\ vtgWaitChunksP = "none"
  /\ vtgResolveSettledP = FALSE
  /\ vtgSettledP = "none"
  /\ vtgPc = "idle"
  /\ vtgCur = NoCur
  /\ vtgOps = <<>>
  /\ vtgOut = <<>>
  /\ vtpParser = ParserNew
  /\ vtpAccumulator = <<>>
  /\ vtpWorkingToken = NoWorkingToken
  /\ vtpDataQueue = <<>>
  /\ vtpExtendedMetadata = NoMetadata
  /\ vtpPendingCallbacks = {}
  /\ vtpResolveDataP = 0
  /\ vtpResolveSettledP = 0
  /\ vtpDataPs = <<>>
  /\ vtpSettledPs = <<>>
  /\ vtpCallbacks = <<>>
  /\ vtpProduced = <<>>
  /\ vtpWrite = [pc |-> "none", awaits |-> 0]
  /\ vtpOnEnd = 0
  /\ vtpSettledCall = [state |-> "none", awaits |-> 0]
  /\ vtpArchive = 0
  /\ vtpRest = <<>>
  /\ vtpOnFile = TRUE
  /\ parParser = ParserNew
  /\ parLast = NoParWrite
  /\ parPrev = NoParWrite
  /\ parEnds = 0
  /\ fpPath = <<>>
  /\ fpPc = "none"
  /\ fpSize = 0
  /\ fpHeader = <<>>
  /\ fpErr = "none"
  /\ fpDecoded = NoDecoded

SpecRT == InitSpecRT /\ [][NextRT]_vars

InitSpecVTG ==
  /\ generator = GeneratorNew
  /\ gLast = NoCall
  /\ gHist = NoHist
  /\ parser = ParserNew
  /\ pLast = NoWrite
  /\ pHist = NoHist
  /\ rtGen = GeneratorNew
  /\ rtPar = ParserNew
  /\ rtPhase = "idle"
  /\ rtCur = NoEntry
  /\ rtOff = 0
  /\ rtCount = 0
  /\ rtFail = "none"
  /\ vtgGenerator = GeneratorNew
  /\ vtgQueue = <<>>
  /\ vtgEnded = FALSE
  /\ vtgResolveWaitChunksP = FALSE
  /\ vtgWaitChunksP = "none"
  /\ vtgResolveSettledP = FALSE
  /\ vtgSettledP = "none"
  /\ vtgPc = "start"
  /\ vtgCur = NoCur
  /\ vtgOps = <<>>
  /\ vtgOut = <<>>
  /\ vtpParser = ParserNew
  /\ vtpAccumulator = <<>>
  /\ vtpWorkingToken = NoWorkingToken
  /\ vtpDataQueue = <<>>
  /\ vtpExtendedMetadata = NoMetadata
  /\ vtpPendingCallbacks = {}
  /\ vtpResolveDataP = 0
  /\ vtpResolveSettledP = 0
  /\ vtpDataPs = <<>>
  /\ vtpSettledPs = <<>>
  /\ vtpCallbacks = <<>>
  /\ vtpProduced = <<>>
  /\ vtpWrite = [pc |-> "none", awaits |-> 0]
  /\ vtpOnEnd = 0
  /\ vtpSettledCall = [state |-> "none", awaits |-> 0]
  /\ vtpArchive = 0
  /\ vtpRest = <<>>
  /\ vtpOnFile = TRUE
  /\ parParser = ParserNew
  /\ parLast = NoParWrite
  /\ parPrev = NoParWrite
  /\ parEnds = 0
  /\ fpPath = <<>>
  /\ fpPc = "none"
  /\ fpSize = 0
  /\ fpHeader = <<>>
  /\ fpErr = "none"
  /\ fpDecoded = NoDecoded

SpecVTG == InitSpecVTG /\ [][NextVTG]_vars

InitSpecVTP ==
  /\ generator = GeneratorNew
  /\ gLast = NoCall
  /\ gHist = NoHist
  /\ parser = ParserNew
  /\ pLast = NoWrite
  /\ pHist = NoHist
  /\ rtGen = GeneratorNew
  /\ rtPar = ParserNew
  /\ rtPhase = "idle"
  /\ rtCur = NoEntry
  /\ rtOff = 0
  /\ rtCount = 0
  /\ rtFail = "none"
  /\ vtgGenerator = GeneratorNew
  /\ vtgQueue = <<>>
  /\ vtgEnded = FALSE
  /\ vtgResolveWaitChunksP = FALSE
  /\ vtgWaitChunksP = "none"
  /\ vtgResolveSettledP = FALSE
  /\ vtgSettledP = "none"
  /\ vtgPc = "idle"
  /\ vtgCur = NoCur
  /\ vtgOps = <<>>
  /\ vtgOut = <<>>
  /\ vtpParser = ParserNew
  /\ vtpAccumulator = <<>>
  /\ vtpWorkingToken = NoWorkingToken
  /\ vtpDataQueue = <<>>
  /\ vtpExtendedMetadata = NoMetadata
  /\ vtpPendingCallbacks = {}
  /\ vtpResolveDataP = 0
  /\ vtpResolveSettledP = 0
  /\ vtpDataPs = <<>>
  /\ vtpSettledPs = <<>>
  /\ vtpCallbacks = <<>>
  /\ vtpProduced = <<>>
  /\ vtpWrite = [pc |-> "idle", awaits |-> 0]
  /\ vtpOnEnd = 0
  /\ vtpSettledCall = [state |-> "none", awaits |-> 0]
  /\ vtpArchive \in DOMAIN VTPEntries
  /\ vtpRest = Archives[vtpArchive]
  /\ vtpOnFile = TRUE
  /\ parParser = ParserNew
  /\ parLast = NoParWrite
  /\ parPrev = NoParWrite
  /\ parEnds = 0
  /\ fpPath = <<>>
  /\ fpPc = "none"
  /\ fpSize = 0
  /\ fpHeader = <<>>
  /\ fpErr = "none"
  /\ fpDecoded = NoDecoded

SpecVTP == InitSpecVTP /\ [][NextVTP]_vars

SpecVTPE == InitSpecVTP /\ [][NextVTPE]_vars

InitSpecVTPX ==
  /\ generator = GeneratorNew
  /\ gLast = NoCall
  /\ gHist = NoHist
  /\ parser = ParserNew
  /\ pLast = NoWrite
  /\ pHist = NoHist
  /\ rtGen = GeneratorNew
  /\ rtPar = ParserNew
  /\ rtPhase = "idle"
  /\ rtCur = NoEntry
  /\ rtOff = 0
  /\ rtCount = 0
  /\ rtFail = "none"
  /\ vtgGenerator = GeneratorNew
  /\ vtgQueue = <<>>
  /\ vtgEnded = FALSE
  /\ vtgResolveWaitChunksP = FALSE
  /\ vtgWaitChunksP = "none"
  /\ vtgResolveSettledP = FALSE
  /\ vtgSettledP = "none"
  /\ vtgPc = "idle"
  /\ vtgCur = NoCur
  /\ vtgOps = <<>>
  /\ vtgOut = <<>>
  /\ vtpParser = ParserNew
  /\ vtpAccumulator = <<>>
  /\ vtpWorkingToken = NoWorkingToken
  /\ vtpDataQueue = <<>>
  /\ vtpExtendedMetadata = NoMetadata
  /\ vtpPendingCallbacks = {}
  /\ vtpResolveDataP = 0
  /\ vtpResolveSettledP = 0
  /\ vtpDataPs = <<>>
  /\ vtpSettledPs = <<>>
  /\ vtpCallbacks = <<>>
  /\ vtpProduced = <<>>
  /\ vtpWrite = [pc |-> "idle", awaits |-> 0]
  /\ vtpOnEnd = 0
  /\ vtpSettledCall = [state |-> "none", awaits |-> 0]
  /\ vtpArchive \in DOMAIN VTPEntries
  /\ vtpRest = Archives[vtpArchive]
  /\ vtpOnFile \in BOOLEAN
  /\ parParser = ParserNew
  /\ parLast = NoParWrite
  /\ parPrev = NoParWrite
  /\ parEnds = 0
  /\ fpPath = <<>>
  /\ fpPc = "none"
  /\ fpSize = 0
  /\ fpHeader = <<>>
  /\ fpErr = "none"
  /\ fpDecoded = NoDecoded

SpecVTPX == InitSpecVTPX /\ [][NextVTPX]_vars

InitSpecPar ==
  /\ generator = GeneratorNew
  /\ gLast = NoCall
  /\ gHist = NoHist
  /\ parser = ParserNew
  /\ pLast = NoWrite
  /\ pHist = NoHist
  /\ rtGen = GeneratorNew
  /\ rtPar = ParserNew
  /\ rtPhase = "idle"
  /\ rtCur = NoEntry
  /\ rtOff = 0
  /\ rtCount = 0
  /\ rtFail = "none"
  /\ vtgGenerator = GeneratorNew
  /\ vtgQueue = <<>>
  /\ vtgEnded = FALSE
  /\ vtgResolveWaitChunksP = FALSE
  /\ vtgWaitChunksP = "none"
  /\ vtgResolveSettledP = FALSE
  /\ vtgSettledP = "none"
  /\ vtgPc = "idle"
  /\ vtgCur = NoCur
  /\ vtgOps = <<>>
  /\ vtgOut = <<>>
  /\ vtpParser = ParserNew
  /\ vtpAccumulator = <<>>
  /\ vtpWorkingToken = NoWorkingToken
  /\ vtpDataQueue = <<>>
  /\ vtpExtendedMetadata = NoMetadata
  /\ vtpPendingCallbacks = {}
  /\ vtpResolveDataP = 0
  /\ vtpResolveSettledP = 0
  /\ vtpDataPs = <<>>
  /\ vtpSettledPs = <<>>
  /\ vtpCallbacks = <<>>
  /\ vtpProduced = <<>>
  /\ vtpWrite = [pc |-> "none", awaits |-> 0]
  /\ vtpOnEnd = 0
  /\ vtpSettledCall = [state |-> "none", awaits |-> 0]
  /\ vtpArchive = 0
  /\ vtpRest = <<>>
  /\ vtpOnFile = TRUE
  /\ parParser = ParserNew
  /\ parLast = NoParWrite
  /\ parPrev = NoParWrite
  /\ parEnds = 0
  /\ fpPath = <<>>
  /\ fpPc = "none"
  /\ fpSize = 0
  /\ fpHeader = <<>>
  /\ fpErr = "none"
  /\ fpDecoded = NoDecoded

SpecPar == InitSpecPar /\ [][NextPar]_vars

InitSpecPath ==
  /\ generator = GeneratorNew
  /\ gLast = NoCall
  /\ gHist = NoHist
  /\ parser = ParserNew
  /\ pLast = NoWrite
  /\ pHist = NoHist
  /\ rtGen = GeneratorNew
  /\ rtPar = ParserNew
  /\ rtPhase = "idle"
  /\ rtCur = NoEntry
  /\ rtOff = 0
  /\ rtCount = 0
  /\ rtFail = "none"
  /\ vtgGenerator = GeneratorNew
  /\ vtgQueue = <<>>
  /\ vtgEnded = FALSE
  /\ vtgResolveWaitChunksP = FALSE
  /\ vtgWaitChunksP = "none"
  /\ vtgResolveSettledP = FALSE
  /\ vtgSettledP = "none"
  /\ vtgPc = "idle"
  /\ vtgCur = NoCur
  /\ vtgOps = <<>>
  /\ vtgOut = <<>>
  /\ vtpParser = ParserNew
  /\ vtpAccumulator = <<>>
  /\ vtpWorkingToken = NoWorkingToken
  /\ vtpDataQueue = <<>>
  /\ vtpExtendedMetadata = NoMetadata
  /\ vtpPendingCallbacks = {}
  /\ vtpResolveDataP = 0
  /\ vtpResolveSettledP = 0
  /\ vtpDataPs = <<>>
  /\ vtpSettledPs = <<>>
  /\ vtpCallbacks = <<>>
  /\ vtpProduced = <<>>
  /\ vtpWrite = [pc |-> "none", awaits |-> 0]
  /\ vtpOnEnd = 0
  /\ vtpSettledCall = [state |-> "none", awaits |-> 0]
  /\ vtpArchive = 0
  /\ vtpRest = <<>>
  /\ vtpOnFile = TRUE
  /\ parParser = ParserNew
  /\ parLast = NoParWrite
  /\ parPrev = NoParWrite
  /\ parEnds = 0
  /\ fpPath \in PathInputs
  /\ fpPc = "input"
  /\ fpSize = 0
  /\ fpHeader = <<>>
  /\ fpErr = "none"
  /\ fpDecoded = NoDecoded

SpecPath == InitSpecPath /\ [][NextPath]_vars

InitSpecPax ==
  /\ generator = GeneratorNew
  /\ gLast = NoCall
  /\ gHist = NoHist
  /\ parser = ParserNew
  /\ pLast = NoWrite
  /\ pHist = NoHist
  /\ rtGen = GeneratorNew
  /\ rtPar = ParserNew
  /\ rtPhase = "idle"
  /\ rtCur = NoEntry
  /\ rtOff = 0
  /\ rtCount = 0
  /\ rtFail = "none"
  /\ vtgGenerator = GeneratorNew
  /\ vtgQueue = <<>>
  /\ vtgEnded = FALSE
  /\ vtgResolveWaitChunksP = FALSE
  /\ vtgWaitChunksP = "none"
  /\ vtgResolveSettledP = FALSE
  /\ vtgSettledP = "none"
  /\ vtgPc = "idle"
  /\ vtgCur = NoCur
  /\ vtgOps = <<>>
  /\ vtgOut = <<>>
  /\ vtpParser = ParserNew
  /\ vtpAccumulator = <<>>
  /\ vtpWorkingToken = NoWorkingToken
  /\ vtpDataQueue = <<>>
  /\ vtpExtendedMetadata = NoMetadata
  /\ vtpPendingCallbacks = {}
  /\ vtpResolveDataP = 0
  /\ vtpResolveSettledP = 0
  /\ vtpDataPs = <<>>
  /\ vtpSettledPs = <<>>
  /\ vtpCallbacks = <<>>
  /\ vtpProduced = <<>>
  /\ vtpWrite = [pc |-> "none", awaits |-> 0]
  /\ vtpOnEnd = 0
  /\ vtpSettledCall = [state |-> "none", awaits |-> 0]
  /\ vtpArchive = 0
  /\ vtpRest = <<>>
  /\ vtpOnFile = TRUE
  /\ parParser = ParserNew
  /\ parLast = NoParWrite
  /\ parPrev = NoParWrite
  /\ parEnds = 0
  /\ fpPath \in {PathOfLen(n) : n \in PaxPathLens}
  /\ fpPc = "input"
  /\ fpSize = 0
  /\ fpHeader = <<>>
  /\ fpErr = "none"
  /\ fpDecoded = NoDecoded

SpecPax == InitSpecPax /\ [][NextPax]_vars

InitSpecStat ==
  /\ generator = GeneratorNew
  /\ gLast = NoCall
  /\ gHist = NoHist
  /\ parser = ParserNew
  /\ pLast = NoWrite
  /\ pHist = NoHist
  /\ rtGen = GeneratorNew
  /\ rtPar = ParserNew
  /\ rtPhase = "idle"
  /\ rtCur = NoEntry
  /\ rtOff = 0
  /\ rtCount = 0
  /\ rtFail = "none"
  /\ vtgGenerator = GeneratorNew
  /\ vtgQueue = <<>>
  /\ vtgEnded = FALSE
  /\ vtgResolveWaitChunksP = FALSE
  /\ vtgWaitChunksP = "none"
  /\ vtgResolveSettledP = FALSE
  /\ vtgSettledP = "none"
  /\ vtgPc = "idle"
  /\ vtgCur = NoCur
  /\ vtgOps = <<>>
  /\ vtgOut = <<>>
  /\ vtpParser = ParserNew
  /\ vtpAccumulator = <<>>
  /\ vtpWorkingToken = NoWorkingToken
  /\ vtpDataQueue = <<>>
  /\ vtpExtendedMetadata = NoMetadata
  /\ vtpPendingCallbacks = {}
  /\ vtpResolveDataP = 0
  /\ vtpResolveSettledP = 0
  /\ vtpDataPs = <<>>
  /\ vtpSettledPs = <<>>
  /\ vtpCallbacks = <<>>
  /\ vtpProduced = <<>>
  /\ vtpWrite = [pc |-> "none", awaits |-> 0]
  /\ vtpOnEnd = 0
  /\ vtpSettledCall = [state |-> "none", awaits |-> 0]
  /\ vtpArchive = 0
  /\ vtpRest = <<>>
  /\ vtpOnFile = TRUE
  /\ parParser = ParserNew
  /\ parLast = NoParWrite
  /\ parPrev = NoParWrite
  /\ parEnds = 0
  /\ fpPath \in {PathOfLen(n) : n \in StatPathLens}
  /\ fpPc = "input"
  /\ fpSize \in StatSizes
  /\ fpHeader = <<>>
  /\ fpErr = "none"
  /\ fpDecoded = NoDecoded

SpecStat == InitSpecStat /\ [][NextStat]_vars

(***************************************************************************)
(* Claims about the Generator and the Parser                               *)
(***************************************************************************)
\* C1: for every sequence of file and directory entries with paths of 1 to
\* 255 bytes, the blocks of the Generator, written one by one to a fresh
\* Parser, yield one Header token per entry with the entry's type, path, size
\* and stat, Data tokens carrying the file's content, and finally End: a
\* finished round trip has met no difference.
C1_RoundTrip == rtPhase = "done" => rtFail = "none"

\* C2: every block returned by a successful Generator operation is exactly
\* 512 bytes long.
C2_EveryBlockIs512 ==
  (gLast.op # "none" /\ gLast.err = "none") => gLast.len = BLOCK_SIZE

\* C3: after a successful generateFile with size n > 0 the Generator is in
\* DATA exactly until ceil(n/512) generateData calls have succeeded, and a
\* header operation or generateEnd called in DATA fails and emits no block.
C3_DataBlockCount ==
  /\ gHist.kind = "file" =>
       /\ gHist.count <= CeilBlocks(gHist.size)
       /\ (generator.state = "DATA") <=> (gHist.count < CeilBlocks(gHist.size))
  /\ (gLast.pre = "DATA" /\ gLast.op \notin {"none", "generateData"}) =>
       (gLast.err # "none" /\ gLast.len = 0)

\* C3's case: a file of MaxBlocks blocks and one byte is back in HEADER after
\* MaxBlocks + 1 generateData calls.
C3_Witness ==
  /\ gHist.kind = "file"
  /\ gHist.size = MaxBlocks * BLOCK_SIZE + 1
  /\ gHist.count = MaxBlocks + 1
  /\ generator.state = "HEADER"
  /\ gLast.op = "generateData"

\* C4: in DATA with r bytes remaining, generateData fails and emits no block
\* when the buffer is shorter than 512 bytes and shorter than r; a short
\* buffer is accepted only when its length equals r.
C4_ShortBufferRejected ==
  /\ (gLast.op = "generateData" /\ gLast.pre = "DATA"
        /\ gLast.dataLen < BLOCK_SIZE /\ gLast.dataLen < gLast.preRemaining) =>
       (gLast.err # "none" /\ gLast.len = 0)
  /\ (gLast.op = "generateData" /\ gLast.err = "none"
        /\ gLast.dataLen < BLOCK_SIZE) =>
       gLast.dataLen = gLast.preRemaining

\* C5: for a file or extended header declaring size n > 0 the Parser returns
\* exactly ceil(n/512) Data tokens; each carries min(r, 512) bytes, so the
\* lengths sum to n; end is true on the last token and on no earlier one.
C5_DataTokens ==
  (pHist.kind \in {"file", "extended"} /\ pHist.size > 0) =>
    /\ pHist.count <= CeilBlocks(pHist.size)
    /\ (parser.state = "DATA") <=> (pHist.count < CeilBlocks(pHist.size))
    /\ pHist.bytes = Min(pHist.size, BLOCK_SIZE * pHist.count)
    /\ pHist.count > 0 =>
         /\ pHist.lastLen =
              Min(BLOCK_SIZE, pHist.size - BLOCK_SIZE * (pHist.count - 1))
         /\ pHist.lastEnd = (pHist.count = CeilBlocks(pHist.size))

\* C5's case: the last token of a file of exactly MaxBlocks blocks has been
\* returned, with end set.
C5_Witness ==
  /\ pHist.kind = "file"
  /\ pHist.size = MaxBlocks * BLOCK_SIZE
  /\ pHist.count = MaxBlocks
  /\ pHist.lastEnd
  /\ pLast.type = "data"

(***************************************************************************)
(* Claims about VirtualTarGenerator                                        *)
(***************************************************************************)
\* The blocks of the n-th enqueued operation: a header and the data blocks
\* of a file, the header of a directory, two null blocks for finalize
BlocksOfOp(n) ==
  [k \in 1..OpBlocks(vtgOps[n]) |->
     [op |-> n, idx |-> k - 1, zero |-> vtgOps[n].kind = "end"]]

\* The blocks of the first n enqueued operations, in call order
RECURSIVE EnqueuedBlocks(_)
EnqueuedBlocks(n) ==
  IF n = 0 THEN <<>> ELSE EnqueuedBlocks(n - 1) \o BlocksOfOp(n)

\* The index of the first finalize among the enqueued operations, else 0
FirstFinalize ==
  IF \E i \in 1..Len(vtgOps) : vtgOps[i].kind = "end"
  THEN CHOOSE i \in 1..Len(vtgOps) :
         /\ vtgOps[i].kind = "end"
         /\ \A j \in 1..(i - 1) : vtgOps[j].kind # "end"
  ELSE 0

\* An operation was enqueued after finalize
EnqueuedAfterFinalize == FirstFinalize # 0 /\ FirstFinalize < Len(vtgOps)

\* C8: when yieldChunks is suspended on an empty queue and finalize has not
\* been called, each of addFile, addDirectory and finalize resumes it: while
\* it is suspended with an operation in the queue, the promise it awaits is
\* resolved, so that it continues without any further call.
C8_EnqueueResumes ==
  (vtgPc = "wait" /\ vtgQueue # <<>>) => vtgWaitChunksP = "resolved"

\* C9: the blocks yielded by yieldChunks are the concatenation of the
\* enqueued operations' blocks in enqueue order, with no interleaving:
\* at every moment the consumer has received a prefix of it.
C9_EnqueueOrder ==
  /\ Len(vtgOut) <= Len(EnqueuedBlocks(Len(vtgOps)))
  /\ \A j \in 1..Len(vtgOut) : vtgOut[j] = EnqueuedBlocks(Len(vtgOps))[j]

\* C9's case: MaxOps operations, the first a file of two data blocks, were
\* enqueued while the consumer pulled, and all their blocks were yielded.
C9_Witness ==
  /\ Len(vtgOps) = MaxOps
  /\ vtgOps[1] = [kind |-> "file", size |-> BLOCK_SIZE + 1]
  /\ vtgOps[MaxOps].kind = "end"
  /\ vtgOut = EnqueuedBlocks(MaxOps)
  /\ vtgWaitChunksP = "resolved"

\* The blocks yieldChunks has still to yield for the operations enqueued so
\* far, plus one for its return; 0 once it has returned or thrown
RECURSIVE QueuedBlocks(_)
QueuedBlocks(queue) ==
  IF queue = <<>> THEN 0
  ELSE OpBlocks(vtgOps[Head(queue)]) + QueuedBlocks(Tail(queue))

Remaining(pc, cur, queue) ==
  IF pc \in {"done", "threw"} THEN 0
  ELSE 1 + QueuedBlocks(queue)
         + (IF cur.op = 0 THEN 0 ELSE OpBlocks(vtgOps[cur.op]) - cur.idx)

\* C10: once finalize has been called and the consumer keeps pulling,
\* yieldChunks yields every block of the operations enqueued before finalize,
\* then exactly two all-zero blocks, and then completes instead of
\* suspending.  After finalize yieldChunks is never left suspended on an
\* unresolved promise: it has ended or its next step can be taken; each step
\* it takes lowers the number of blocks it has still to yield; when it has
\* returned, the consumer has received exactly the blocks enqueued up to
\* finalize, ending with the two null blocks; and it throws only if an
\* operation was enqueued after finalize.
C10_FinalizeCompletes ==
  /\ [](vtgEnded =>
          /\ \/ vtgPc \in {"done", "threw", "start", "yield"}
             \/ vtgPc = "wait" /\ vtgWaitChunksP = "resolved"
          /\ vtgPc = "done" => vtgOut = EnqueuedBlocks(FirstFinalize)
          /\ vtgPc = "threw" => EnqueuedAfterFinalize)
  /\ [][(vtgEnded /\ (vtgPc' # vtgPc \/ vtgOut' # vtgOut)) =>
          Remaining(vtgPc', vtgCur', vtgQueue')
            < Remaining(vtgPc, vtgCur, vtgQueue)]_vars

\* C10's case: finalize was the last of MaxOps operations and yieldChunks
\* has completed.
C10_Witness ==
  /\ vtgPc = "done"
  /\ Len(vtgOps) = MaxOps
  /\ FirstFinalize = MaxOps
  /\ vtgOps[1].kind = "file"
  /\ Len(vtgOut) > 2

(***************************************************************************)
(* Claims about VirtualTarParser                                           *)
(***************************************************************************)
\* The Data tokens held for callback cb: a resolved promise that its data
\* generator has yet to take
HeldFor(cb) ==
  IF vtpCallbacks[cb].state = "reading"
       /\ vtpDataPs[vtpCallbacks[cb].awaits].state = "resolved"
  THEN 1 ELSE 0

\* C6: a Data token produced for the current file while its data generator
\* is not waiting is kept and yielded on the consumer's next request; no
\* Data token of a file whose callback reads its data generator is dropped:
\* every token the Parser returned for a file has been yielded to the file's
\* callback or is held for it.
C6_NoDataTokenDropped ==
  \A cb \in DOMAIN vtpCallbacks :
    vtpProduced[cb] = vtpCallbacks[cb].tokens + HeldFor(cb)

\* Nothing can run any more: the archive was written, write() has returned or
\* awaits an unresolved promise, settled() was called if it could be, and no
\* callback can continue
VTPQuiescent ==
  /\ vtpArchive # 0
  /\ vtpRest = <<>>
  /\ \/ vtpWrite.pc = "threw"
     \/ vtpWrite.pc = "idle" /\ vtpSettledCall.state # "none"
     \/ /\ vtpWrite.pc = "awaitSettled"
        /\ vtpWrite.awaits # 0
        /\ vtpSettledPs[vtpWrite.awaits] = "pending"
  /\ \A cb \in DOMAIN vtpCallbacks :
       /\ vtpCallbacks[cb].state # "running"
       /\ HeldFor(cb) = 0

\* The positions in an archive of the entries that have a callback (the
\* files and the directories), in order, and these entries
CallbackPositions(a) ==
  LET RECURSIVE From(_)
      From(i) ==
        IF i > Len(VTPEntries[a]) THEN <<>>
        ELSE IF VTPEntries[a][i].type = "extended" THEN From(i + 1)
        ELSE <<i>> \o From(i + 1)
  IN  From(1)

CallbackEntries(a) ==
  [k \in 1..Len(CallbackPositions(a)) |->
     VTPEntries[a][CallbackPositions(a)[k]]]

\* Every entry's callback has completed, a file's after it was yielded
\* exactly the bytes of its file; onEnd was called, write() and settled()
\* have returned
VTPCompleted ==
  /\ Len(vtpCallbacks) = Len(CallbackEntries(vtpArchive))
  /\ \A cb \in DOMAIN vtpCallbacks :
       /\ vtpCallbacks[cb].state = "done"
       /\ vtpCallbacks[cb].kind = CallbackEntries(vtpArchive)[cb].type
       /\ vtpCallbacks[cb].kind = "file" =>
            /\ vtpCallbacks[cb].got = CallbackEntries(vtpArchive)[cb].size
            /\ vtpCallbacks[cb].ok
  /\ vtpOnEnd = 1
  /\ vtpWrite.pc = "idle"
  /\ \/ vtpSettledCall.state = "returned"
     \/ /\ vtpSettledCall.state = "waiting"
        /\ vtpSettledPs[vtpSettledCall.awaits] = "resolved"

\* C7: when a well-formed archive is written and every onFile callback
\* reads its data generator to the end, every data generator terminates
\* after yielding exactly the bytes of its file, every callback completes,
\* settled() resolves and onEnd is invoked; no callback stays suspended
\* forever: once nothing can run any more, all of that has happened.
C7_AllCallbacksComplete == VTPQuiescent => VTPCompleted


(***************************************************************************)
(* Claims about VirtualTarGenerator.settled                                *)
(***************************************************************************)
\* C11: a call of settled() resolves as soon as the operation queue is
\* empty, at once if it is empty already, finalized or not: when yieldChunks
\* has found the queue empty (it is suspended on it, or it has returned) and
\* nothing has been enqueued since, no promise of settled() is pending.
C11_SettledOnEmptyQueue ==
  (vtgQueue = <<>> /\ vtgPc \in {"wait", "done"}) => vtgSettledP # "pending"

(***************************************************************************)
(* Claims about the Generator's states                                     *)
(***************************************************************************)
\* The Generator is as it was before the last call, which returned no block
GenCallRejected ==
  /\ gLast.len = 0
  /\ generator = [state |-> gLast.pre, remainingBytes |-> gLast.preRemaining]

\* C12: after the first successful generateEnd (state NULL) the only
\* operation that succeeds is a second generateEnd, which returns a null
\* block and ends the archive; generateFile, generateDirectory,
\* generateExtended and generateData throw InvalidState, return no block and
\* leave the state NULL, so no block comes between the two null blocks.
C12_OnlyEndAfterFirstEnd ==
  (gLast.op # "none" /\ gLast.pre = "NULL") =>
    IF gLast.op = "generateEnd"
    THEN /\ gLast.err = "none"
         /\ gLast.len = BLOCK_SIZE
         /\ generator.state = "ENDED"
    ELSE gLast.err = "InvalidState" /\ GenCallRejected

\* C12's case: generateExtended was called after the first generateEnd
C12_Witness ==
  /\ gLast.op = "generateExtended"
  /\ gLast.pre = "NULL"
  /\ gLast.err = "InvalidState"
  /\ generator.state = "NULL"

\* C13: after two successful generateEnd calls the Generator is in ENDED
\* and stays there: every further call, generateEnd included, throws
\* InvalidState and returns no block.
C13_EndedRejectsAll ==
  (gLast.op # "none" /\ gLast.pre = "ENDED") =>
    gLast.err = "InvalidState" /\ GenCallRejected

\* C14: an operation of the wrong kind for the state (generateFile,
\* generateDirectory or generateExtended in DATA, generateData in HEADER)
\* throws InvalidState, returns no block and leaves the Generator as it was.
C14_WrongKindRejected ==
  (\/ gLast.pre = "DATA"
      /\ gLast.op \in {"generateFile", "generateDirectory",
                       "generateExtended"}
   \/ gLast.pre = "HEADER" /\ gLast.op = "generateData") =>
    gLast.err = "InvalidState" /\ GenCallRejected

\* C14's case: generateFile was called while data blocks of a file were
\* still expected
C14_Witness ==
  /\ gLast.op = "generateFile"
  /\ gLast.pre = "DATA"
  /\ gLast.preRemaining > BLOCK_SIZE
  /\ gLast.err = "InvalidState"
  /\ gHist.kind = "file"

\* C15: after a successful generateDirectory, whatever size its stat
\* carried, the Generator is in HEADER with no data expected; the call that
\* follows fails if it is generateData and is accepted if it is a header
\* operation or generateEnd.
C15_DirectoryKeepsHeader ==
  /\ []((gLast.op = "generateDirectory" /\ gLast.err = "none") =>
          /\ generator = [state |-> "HEADER", remainingBytes |-> 0]
          /\ gLast.len = BLOCK_SIZE)
  /\ [][(gLast.op = "generateDirectory" /\ gLast.err = "none") =>
          IF gLast'.op = "generateData"
          THEN gLast'.err = "InvalidState" /\ gLast'.len = 0
          ELSE gLast'.err = "none" /\ gLast'.len = BLOCK_SIZE]_vars

\* C15's case: generateDirectory succeeded with a stat of non-zero size
C15_Witness ==
  /\ gLast.op = "generateDirectory"
  /\ gLast.err = "none"
  /\ gLast.size = BLOCK_SIZE
  /\ gLast.pre = "HEADER"

(***************************************************************************)
(* Claims about the Parser's states                                        *)
(***************************************************************************)
\* The Parser is as it was before the last write, which returned no token
ParWriteRejected ==
  /\ parLast.type = "none"
  /\ parParser = [state |-> parLast.pre,
                  remainingBytes |-> parLast.preRemaining]

\* C16: write returns an End token exactly when the block it is passed is
\* all zero and the block passed to the write before it was all zero and
\* was received in HEADER state; and End is returned at most once.
C16_EndAfterTwoNullBlocks ==
  /\ parLast.type = "end" <=>
       /\ parLast.kind = "null"
       /\ parPrev.kind = "null"
       /\ parPrev.pre = "HEADER"
  /\ parEnds <= 1

\* C17: after a null block was accepted in HEADER state (state NULL), the
\* write of a 512-byte block that is not all zero throws EndOfArchive and
\* returns no token.
C17_NonNullAfterNullRejected ==
  (parLast.pre = "NULL" /\ parLast.len = BLOCK_SIZE
     /\ parLast.kind # "null") =>
    parLast.err = "EndOfArchive" /\ ParWriteRejected

\* C17's case: a valid file header was written after one null block
C17_Witness ==
  /\ parPrev.kind = "null"
  /\ parPrev.pre = "HEADER"
  /\ parLast.kind = "file"
  /\ parLast.pre = "NULL"
  /\ parLast.err = "EndOfArchive"

\* C18: once End has been returned (state ENDED), every write of a
\* 512-byte block, whatever it holds, throws EndOfArchive and returns no
\* token.
C18_WriteAfterEndRejected ==
  /\ (parLast.pre = "ENDED" /\ parLast.len = BLOCK_SIZE) =>
       parLast.err = "EndOfArchive" /\ ParWriteRejected
  /\ parEnds > 0 => parParser.state = "ENDED"

\* C18's case: two blocks were written after End, the last a null block
C18_Witness ==
  /\ parEnds = 1
  /\ parPrev.pre = "ENDED"
  /\ parPrev.kind = "directory"
  /\ parLast.pre = "ENDED"
  /\ parLast.kind = "null"
  /\ parLast.err = "EndOfArchive"

\* C19: in every state, write of a buffer whose length is not 512 throws
\* BlockSize, returns no token and leaves the Parser as it was.
C19_WrongLengthRejected ==
  (parLast.kind # "none" /\ parLast.len # BLOCK_SIZE) =>
    parLast.err = "BlockSize" /\ ParWriteRejected

\* C19's case: a buffer of 513 bytes was written after End
C19_Witness ==
  /\ parLast.len = BLOCK_SIZE + 1
  /\ parLast.pre = "ENDED"
  /\ parLast.err = "BlockSize"

\* C20: in HEADER state, a 512-byte block that is not all zero and has a
\* stored checksum other than the computed one, or a wrong magic or version,
\* is rejected with InvalidHeader: no token, and the Parser stays in HEADER.
C20_InvalidHeaderRejected ==
  (parLast.pre = "HEADER"
     /\ parLast.kind \in {"data", "badChecksum", "badMagic", "badVersion"}) =>
    parLast.err = "InvalidHeader" /\ ParWriteRejected

\* C20's case: a header whose magic is wrong and whose checksum is right
\* was written in HEADER state
C20_Witness ==
  /\ parLast.kind = "badMagic"
  /\ parLast.pre = "HEADER"
  /\ parLast.err = "InvalidHeader"

\* C21: a file header of size 0 leaves the Parser in HEADER and returns one
\* Header token; the block written next is parsed in HEADER state, as a
\* header or as the first null block, and never returns a Data token.
C21_EmptyFileHasNoData ==
  /\ (parLast.kind = "file" /\ parLast.size = 0 /\ parLast.pre = "HEADER") =>
       /\ parLast.err = "none"
       /\ parLast.type = "header"
       /\ parParser.state = "HEADER"
  /\ (parPrev.kind = "file" /\ parPrev.size = 0 /\ parPrev.pre = "HEADER") =>
       /\ parLast.pre = "HEADER"
       /\ parLast.type # "data"
       /\ parLast.kind \in {"file", "directory", "extended"} =>
            parLast.err = "none" /\ parLast.type = "header"
       /\ parLast.kind = "null" =>
            /\ parLast.err = "none"
            /\ parLast.type = "none"
            /\ parParser.state = "NULL"

\* C21's case: a null block was written after the header of an empty file
C21_Witness ==
  /\ parPrev.kind = "file"
  /\ parPrev.size = 0
  /\ parPrev.pre = "HEADER"
  /\ parPrev.type = "header"
  /\ parLast.kind = "null"
  /\ parParser.state = "NULL"

\* The path an entry is to be reported with: the path record of the
\* extended header that comes immediately before it, else the path of its
\* own header
EntryHeaderPath(e) == IF e.type = "file" THEN <<102>> ELSE <<100, 47>>

ReportedPath(a, pos) ==
  IF /\ pos > 1
     /\ VTPEntries[a][pos - 1].type = "extended"
     /\ MetadataPath(VTPEntries[a][pos - 1].data).defined
  THEN MetadataPath(VTPEntries[a][pos - 1].data).value
  ELSE EntryHeaderPath(VTPEntries[a][pos])

\* C22: the path record of an extended header overrides the path of the
\* next file or directory header only; every entry is reported with the
\* path of the extended header right before it or, when there is none or it
\* carries no path record, with the path of its own header, whatever
\* extended headers came earlier in the archive.
C22_ExtendedPathAppliesToNextOnly ==
  \A cb \in DOMAIN vtpCallbacks :
    vtpCallbacks[cb].path =
      ReportedPath(vtpArchive, CallbackPositions(vtpArchive)[cb])

\* The block of an archive that holds the header of its entry pos, counted
\* from 1, and the number of blocks the write loop has taken so far
HeaderBlocks ==
  [a \in DOMAIN VTPEntries |->
     [pos \in DOMAIN VTPEntries[a] |->
        (Len(ArchiveFrom(SubSeq(VTPEntries[a], 1, pos - 1), 1))
           \div BLOCK_SIZE) - 1]]

BlocksParsed ==
  (Len(Archives[vtpArchive]) - Len(vtpRest) - Len(vtpAccumulator))
    \div BLOCK_SIZE

HeadersParsed ==
  {k \in DOMAIN CallbackPositions(vtpArchive) :
     HeaderBlocks[vtpArchive][CallbackPositions(vtpArchive)[k]]
       <= BlocksParsed}

\* C23: the file and directory callbacks are invoked in the order of the
\* entries in the archive: at any time the callbacks invoked so far are, in
\* order, those of the file and directory headers among the blocks taken so
\* far, whether or not earlier callbacks have completed.
C23_CallbacksInArchiveOrder ==
  /\ Len(vtpCallbacks) = Cardinality(HeadersParsed)
  /\ \A cb \in DOMAIN vtpCallbacks :
       /\ vtpCallbacks[cb].kind = CallbackEntries(vtpArchive)[cb].type
       /\ vtpCallbacks[cb].size = CallbackEntries(vtpArchive)[cb].size

\* The second file's callback is invoked while the first still reads
C23_Witness ==
  /\ vtpArchive = 4
  /\ Len(vtpCallbacks) = 2
  /\ vtpCallbacks[1].state = "reading"
  /\ vtpCallbacks[1].got < vtpCallbacks[1].size
  /\ vtpCallbacks[2].state = "reading"

C25_SettledResolvesWithLastCallback ==
  \A i \in DOMAIN vtpSettledPs :
    vtpSettledPs[i] = "pending" => vtpPendingCallbacks # {}

\* C26: a callback that has thrown makes write() throw: no archive is
\* written to its end with every write() returning normally after one of
\* its callbacks has thrown.
C26_CallbackErrorReachesWrite ==
  (\E cb \in DOMAIN vtpCallbacks : vtpCallbacks[cb].state = "threw") =>
    ~(vtpRest = <<>> /\ vtpWrite.pc = "idle")

\* The chunks of the payloads of the extended headers of an archive
RECURSIVE ExtendedChunks(_)
ExtendedChunks(entries) ==
  IF entries = <<>> THEN <<>>
  ELSE IF Head(entries).type = "extended"
       THEN <<encodeExtendedHeader(Head(entries).data).output>>
              \o ExtendedChunks(Tail(entries))
       ELSE ExtendedChunks(Tail(entries))

\* C27: without onFile the data of files is neither buffered nor waited
\* for: no data promise is ever created, no callback reads, dataQueue holds
\* payload of extended headers only; every file and directory header still
\* has its callback invoked, and onEnd has been invoked when the write() of
\* the End token has returned.
C27_NoOnFileDiscardsData ==
  ~vtpOnFile =>
    /\ vtpDataPs = <<>>
    /\ vtpResolveDataP = 0
    /\ \A cb \in DOMAIN vtpCallbacks : vtpCallbacks[cb].state # "reading"
    /\ Len(vtpDataQueue) <= Len(ExtendedChunks(VTPEntries[vtpArchive]))
    /\ vtpDataQueue =
         SubSeq(ExtendedChunks(VTPEntries[vtpArchive]), 1, Len(vtpDataQueue))
    /\ Len(vtpCallbacks) = Cardinality(HeadersParsed)
    /\ vtpWrite.pc # "threw"
    /\ (vtpParser.state = "ENDED" /\ vtpWrite.pc = "idle") => vtpOnEnd = 1

\* Without onFile an archive of a file with a data block and a directory
\* after it was written to its end: both callbacks and onEnd were invoked
C27_Witness ==
  /\ ~vtpOnFile
  /\ vtpArchive = 7
  /\ vtpRest = <<>>
  /\ vtpWrite.pc = "idle"
  /\ Len(vtpCallbacks) = 2
  /\ vtpProduced[1] = 1
  /\ vtpCallbacks[2].kind = "directory"
  /\ vtpOnEnd = 1

(***************************************************************************)
(* Claims about the path fields of a header                                *)
(***************************************************************************)
\* C28: for every path of 1 to 255 bytes, the path decoded from a header
\* written with it by writeFilePath is the path.
C28_PathRoundTrip ==
  (fpPc = "writeFilePath" /\ fpDecoded.done) => fpDecoded.path = fpPath

\* The name field and the prefix field of the header written
NameField ==
  SubSeq(fpHeader, HEADER_OFFSET.FILE_NAME + 1,
         HEADER_OFFSET.FILE_NAME + HEADER_SIZE.FILE_NAME)

PrefixField ==
  SubSeq(fpHeader, HEADER_OFFSET.FILE_NAME_PREFIX + 1,
         HEADER_OFFSET.FILE_NAME_PREFIX + HEADER_SIZE.FILE_NAME_PREFIX)

\* C29: writeFilePath writes a path of at most 100 bytes to the name field
\* and leaves the prefix field all NUL; of a longer path it writes the
\* trailing 100 bytes to the name field and the leading rest to the prefix
\* field.
C29_PathFieldPlacement ==
  fpPc = "writeFilePath" =>
    IF Len(fpPath) <= HEADER_SIZE.FILE_NAME
    THEN /\ NameField = PadEnd(fpPath, HEADER_SIZE.FILE_NAME, NUL)
         /\ PrefixField = Zeros(HEADER_SIZE.FILE_NAME_PREFIX)
    ELSE /\ NameField = SubSeq(fpPath, Len(fpPath) - HEADER_SIZE.FILE_NAME + 1,
                               Len(fpPath))
         /\ PrefixField =
              PadEnd(SubSeq(fpPath, 1, Len(fpPath) - HEADER_SIZE.FILE_NAME),
                     HEADER_SIZE.FILE_NAME_PREFIX, NUL)

\* C30: every directory header the Generator emits for a path of 1 to 255
\* bytes stores a path that ends with '/' and the size 0, whatever size the
\* caller passed.
C30_DirectoryPathAndSize ==
  (fpPc = "generateDirectory" /\ fpDecoded.done) =>
    /\ fpDecoded.path # <<>>
    /\ fpDecoded.path[Len(fpDecoded.path)] = 47
    /\ fpDecoded.size = 0

(***************************************************************************)
(* Claims about the limits of generateHeader                               *)
(***************************************************************************)
\* C31: generateFile accepts every size from 0 to 2^33 - 1 (every size of
\* StatSizes is below 2^31): with a path of 1 to 255 bytes it throws
\* nothing and returns a header block.
C31_FileSizeAccepted ==
  (fpPc = "generateFile" /\ Len(fpPath) \in 1..STANDARD_PATH_SIZE) =>
    /\ fpErr = "none"
    /\ Len(fpHeader) = BLOCK_SIZE

\* C34: generateFile and generateDirectory on a new Generator, no extended
\* header before, throw InvalidFileName for a path of length 0 and for a
\* path longer than 255.
C34_PathLengthRejected ==
  (/\ fpPc \in {"generateFile", "generateDirectory"}
   /\ fpSize <= MAX_STAT_SIZE
   /\ Len(fpPath) \notin 1..STANDARD_PATH_SIZE) =>
    /\ fpErr = "InvalidFileName"
    /\ fpHeader = <<>>

\* C35: a Generator operation that throws leaves state and remainingBytes
\* as they were before the call (here those of a new Generator).
C35_FailureKeepsState ==
  (fpPc \in {"generateFile", "generateDirectory", "generateExtended"}
     /\ fpErr # "none") =>
    generator = GeneratorNew

(***************************************************************************)
(* Claims about the Generator and the Parser in step                       *)
(***************************************************************************)
\* The data blocks still expected for remainingBytes bytes
BlocksFor(remainingBytes) == (remainingBytes + BLOCK_SIZE - 1) \div BLOCK_SIZE

\* C36: when every block a successful Generator operation returns is
\* written in order to a new Parser, the Parser never throws and after
\* every block it is in the state of the Generator, in DATA with the same
\* number of data blocks still expected.
C36_ParserFollowsGenerator ==
  /\ pLast.err = "none"
  /\ parser.state = generator.state
  /\ parser.state = "DATA" =>
       BlocksFor(parser.remainingBytes) = BlocksFor(generator.remainingBytes)

\* C40: generateEnd in DATA throws, returns no block and leaves the
\* Generator as it was; the Generator reaches NULL or ENDED only with every
\* data block of the last file or extended header emitted.
C40_EndRejectedInData ==
  /\ (gLast.op = "generateEnd" /\ gLast.pre = "DATA") =>
       /\ gLast.err = "EndOfArchive"
       /\ GenCallRejected
       /\ generator.state = "DATA"
  /\ generator.state \in {"NULL", "ENDED"} =>
       /\ generator.remainingBytes = 0
       /\ gHist.kind # "none" => gHist.count = BlocksFor(gHist.size)

\* generateEnd was called with a data block outstanding, and was rejected
C40_Witness ==
  /\ gLast.op = "generateEnd"
  /\ gLast.pre = "DATA"
  /\ gLast.preRemaining > 0
  /\ gLast.err = "EndOfArchive"
  /\ gHist.kind = "file"
  /\ gHist.count = 1

(***************************************************************************)
(* Claims about the extended header                                        *)
(***************************************************************************)
\* The size at the start of the bytes encoded
DeclaredSize == extractDecimal(fpHeader, 0, 32)

\* C32: the size encodeExtendedHeader writes at the start of a record is
\* the length of the record: the digits of the size, the space, the key,
\* '=', the value and the newline.
C32_DeclaredSizeIsRecordLength ==
  fpPc = "encodeExtendedHeader" =>
    DeclaredSize =
      Len(NumToString(DeclaredSize, 10)) + 1 + Len(FILE_PATH) + 1
        + Len(fpPath) + 1

\* C33: for a path longer than 255 bytes decodeExtendedHeader returns, from
\* the bytes of encodeExtendedHeader({ path }), a record with that path.
C33_ExtendedPathRoundTrip ==
  (/\ fpPc = "encodeExtendedHeader"
   /\ fpDecoded.done
   /\ Len(fpPath) > STANDARD_PATH_SIZE) =>
    /\ fpErr = "none"
    /\ fpDecoded.path = fpPath

(***************************************************************************)
(* Claims about the data generators of VirtualTarParser                    *)
(***************************************************************************)
\* C37: a data generator yields only bytes of its own file: what a file
\* callback was yielded so far is the start of the content of its file, and
\* a chunk held for it is the part of that content that comes next.
C37_OnlyOwnFileData ==
  \A cb \in DOMAIN vtpCallbacks :
    LET c == vtpCallbacks[cb]
    IN  /\ c.ok
        /\ c.got <= c.size
        /\ HeldFor(cb) = 1 =>
             vtpDataPs[c.awaits].data =
               Slice(ContentOfLen(c.size), c.got,
                     c.got + Len(vtpDataPs[c.awaits].data))

\* C38: the callbacks invoked and the bytes delivered to each file's data
\* generator are the same for every way of splitting the archive into
\* chunks, namely those of writing it block by block: once nothing can run
\* any more, every file and directory of the archive has had its callback
\* invoked, in order, and every file callback was yielded the bytes of its
\* file.
C38_SameForEveryChunking ==
  VTPQuiescent =>
    /\ Len(vtpCallbacks) = Len(CallbackEntries(vtpArchive))
    /\ \A cb \in DOMAIN vtpCallbacks :
         /\ vtpCallbacks[cb].kind = CallbackEntries(vtpArchive)[cb].type
         /\ vtpCallbacks[cb].kind = "file" =>
              /\ vtpCallbacks[cb].got = vtpCallbacks[cb].size
              /\ vtpCallbacks[cb].ok

(***************************************************************************)
(* Claims about the end of the stream of yieldChunks                       *)
(***************************************************************************)
\* C39: the stream of yieldChunks holds no block after the two terminating
\* null blocks, whatever is enqueued after finalize: two null blocks in a
\* row are the last two blocks yielded, they are those of the first
\* finalize, and once the Generator has ended the stream ends with them.
C39_NothingAfterEnd ==
  /\ \A i \in 1..(Len(vtgOut) - 1) :
       (vtgOut[i].zero /\ vtgOut[i + 1].zero) =>
         /\ i + 1 = Len(vtgOut)
         /\ vtgOut[i].op = FirstFinalize
         /\ vtgOut[i + 1].op = FirstFinalize
  /\ \A i \in DOMAIN vtgOut :
       FirstFinalize # 0 => vtgOut[i].op <= FirstFinalize
  /\ vtgGenerator.state = "ENDED" =>
       /\ Len(vtgOut) >= 2
       /\ vtgOut[Len(vtgOut)].zero
       /\ vtgOut[Len(vtgOut) - 1].zero

\* An operation enqueued after finalize was run by yieldChunks after the
\* two null blocks: it threw and yielded nothing
C39_Witness ==
  /\ EnqueuedAfterFinalize
  /\ vtgGenerator.state = "ENDED"
  /\ vtgPc = "threw"
  /\ vtgQueue = <<>>
  /\ Len(vtgOut) >= 2
  /\ vtgOut[Len(vtgOut)].zero
=============================================================================
